---- MODULE Spec2Model ----
(***************************************************************************)
(* Rental Calendar Sync (studioaxe/rcs): the calendar reconciliation       *)
(* engine of src/sync.py, the night overlay behind /api/events             *)
(* (src/main.py) and the day grid of the manual editor                     *)
(* (src/backend/manual_editor.py).                                         *)
(*                                                                         *)
(* Dates are day numbers.  A Python value that can stand for a date is a   *)
(* record [kind, day, hour]: None, a datetime.date, a datetime.datetime,   *)
(* or one of the strings the ICS readers produce with isoformat().         *)
(* Free text (SUMMARY, DESCRIPTION) is a sequence of tokens, so len() is   *)
(* Len; a CATEGORIES value is the sequence of its labels.                  *)
(***************************************************************************)
EXTENDS Integers, Sequences, FiniteSets, TLC

VARIABLES
    BUFFER_DAYS_BEFORE, \* sync.py:71, read from the environment at import
    BUFFER_DAYS_AFTER,  \* sync.py:72
    calendars,          \* sync_local: result of fetch_all_calendars
    all_events,         \* sync_local: result of extract_events
    events,             \* sync_local: result of deduplicate_events
    import_cal,         \* sync_local: result of create_import_calendar
    manual_cal,         \* sync_local: result of load_manual_calendar
    master_cal,         \* sync_local: result of merge_calendars
    import_ics,         \* the file import_calendar.ics
    manual_ics,         \* the file manual_calendar.ics
    master_ics,         \* the file master_calendar.ics
    import_nights,      \* api_events: convert_events_to_nights of the import file
    manual_nights,      \* api_events: convert_events_to_nights of the manual file
    final_nights,       \* api_events: apply_night_overlay_rules(...)
    calendar_data,      \* ManualEditorHandler.process_calendar_data(...)
    pc,                 \* position of the running request or sync
    force_download,     \* sync_local: its argument
    now,                \* the datetime.now() of the run
    pre_run,            \* the output files as they were when the run began
    rival,              \* a second execution of sync_local: position and locals
    observed,           \* api_calendar_nights: what it read from master_calendar.ics
    nights_response,    \* api_calendar_nights: the night map it returns
    result,             \* sync_local: the dict it returns
    raised,             \* extract_events: per source whose extraction raised,
                        \* the number of events appended before the exception
    route,              \* the endpoint of main.py that serves the request
    pushed,             \* update_github_file: the files uploaded, in order
    response,           \* the endpoint's JSON response
    manual_events,      \* ManualEditorHandler: self.manual_events
    returned,           \* ManualEditorHandler: what its last method returned
    reloaded,           \* self.manual_events of a handler constructed later
    last_call,          \* the last method called on the handler, its
                        \* arguments and self.manual_events before it
    uuids,              \* the number of uuid.uuid4() drawn so far
    session,            \* the Flask session of the browser
    session_ops,        \* the AuthManager.login / logout calls on it, in order
    admitted            \* the last guarded view requested and whether it ran

vars == <<BUFFER_DAYS_BEFORE, BUFFER_DAYS_AFTER, calendars, all_events, events,
          import_cal, manual_cal, master_cal, import_ics, manual_ics, master_ics,
          import_nights, manual_nights, final_nights, calendar_data, pc,
          force_download, now, pre_run, rival, observed, nights_response,
          result, raised, route, pushed, response, manual_events, returned,
          reloaded, last_call, uuids, session, session_ops, admitted>>

\* what only the actions of a run with its own arguments, of a second
\* execution or of /api/calendar/nights change
run_args == <<force_download, now, pre_run>>
concurrent == <<rival, observed, nights_response>>

\* what only the endpoints of main.py change, outside sync_local
frontend == <<route, pushed, response>>

\* what only the methods of ManualEditorHandler change
editor == <<manual_events, returned, reloaded, last_call, uuids>>

\* what only the login and logout pages and the guards of auth.py change
auth == <<session, session_ops, admitted>>

-----------------------------------------------------------------------------
(* Bounds of the model *)

MaxEvents == 2      \* VEVENTs over all the feeds of one sync run
MaxManual == 1      \* VEVENTs of the manual_calendar.ics a sync run loads
MaxBuffer == 1      \* BUFFER_DAYS_BEFORE / BUFFER_DAYS_AFTER range over 0..MaxBuffer
MaxImportRead == 1  \* VEVENTs of an import_calendar.ics the API reads
MaxManualRead == 2  \* VEVENTs of a manual_calendar.ics the API reads
MaxMasterRead == 2  \* VEVENTs of a master_calendar.ics the API reads
MaxConvert == 2     \* VEVENTs of a file whose events are converted to nights
MaxCalls == 2       \* methods called on one ManualEditorHandler before it saves
MaxDates == 1       \* dates in the list given to block_dates, remove_events, clear_events
MaxSessionOps == 3  \* AuthManager.login / logout calls on one session
MaxClock == 1       \* the files a run finds were written at time 0, it runs at MaxClock

-----------------------------------------------------------------------------
(* Dates *)

None == [kind |-> "none", day |-> 0, hour |-> 0]
Date(d) == [kind |-> "date", day |-> d, hour |-> 0]
DateTime(d, h) == [kind |-> "datetime", day |-> d, hour |-> h]
\* 'YYYY-MM-DD', the isoformat() of a date
IsoDate(d) == [kind |-> "isodate", day |-> d, hour |-> 0]
\* 'YYYY-MM-DDTHH:MM:SS', the isoformat() of a datetime
IsoDateTime(d, h) == [kind |-> "isodatetime", day |-> d, hour |-> h]
\* ''
EmptyStr == [kind |-> "emptystr", day |-> 0, hour |-> 0]

\* sync.py to_date: a date stays, a datetime loses its time, a string is
\* parsed only when it is 8 digits or 'YYYY-MM-DD' (10 characters); anything
\* else, an ISO datetime string included, gives None.
to_date(dtobj) ==
    CASE dtobj.kind = "date" -> dtobj
      [] dtobj.kind = "datetime" -> Date(dtobj.day)
      [] dtobj.kind = "isodate" -> Date(dtobj.day)
      [] OTHER -> None

\* sync.py to_datetime: a datetime stays (UTC is attached when naive), a date
\* becomes midnight UTC, anything else gives None.
to_datetime(dtobj) ==
    CASE dtobj.kind = "datetime" -> dtobj
      [] dtobj.kind = "date" -> DateTime(dtobj.day, 0)
      [] OTHER -> None

\* date.isoformat() / datetime.isoformat()
isoformat(dt) ==
    IF dt.kind = "datetime" THEN IsoDateTime(dt.day, dt.hour) ELSE IsoDate(dt.day)

\* backend/ics.py _extract_date_iso: '' for a missing property
_extract_date_iso(dt) ==
    IF dt = None THEN EmptyStr ELSE isoformat(dt)

\* Python truthiness of the values above: None and '' are falsy
Truthy(dtobj) == dtobj.kind \notin {"none", "emptystr"}

\* timedelta arithmetic on a date
PlusDays(dt, n) == [dt EXCEPT !.day = dt.day + n]

-----------------------------------------------------------------------------
(* Sequences *)

RECURSIVE FoldLeft(_, _, _)
FoldLeft(Op(_, _), acc, seq) ==
    IF seq = <<>> THEN acc
    ELSE FoldLeft(Op, Op(acc, Head(seq)), Tail(seq))

RECURSIVE Concat(_)
Concat(seqs) ==
    IF seqs = <<>> THEN <<>> ELSE Head(seqs) \o Concat(Tail(seqs))

SeqsUpTo(S, n) == UNION {[1..k -> S] : k \in 0..n}

Range(seq) == {seq[i] : i \in 1..Len(seq)}

-----------------------------------------------------------------------------
(* Feeds: fetch_all_calendars and extract_events *)

SOURCES == <<"AIRBNB", "BOOKING", "VRBO">>

\* A VEVENT component of a calendar; created is its CREATED and LAST-MODIFIED
\* stamp, -1 when the component was not made by create_import_calendar
VEvent(uid, summary, dtstart, dtend, description, categories) ==
    [uid |-> uid, summary |-> summary, dtstart |-> dtstart, dtend |-> dtend,
     description |-> description, categories |-> categories, created |-> -1]

\* event.add('created', datetime.now(pytz.UTC)) and the same for
\* 'last-modified'
Stamped(vevent, stamp) == [vevent EXCEPT !.created = stamp]

\* A source whose download failed is None in the calendars dict
NoCalendar == [ok |-> FALSE, vevents |-> <<>>]
Calendar(vevents) == [ok |-> TRUE, vevents |-> vevents]

\* A file that open(filepath, 'wb') has truncated and whose data is not yet
\* (all) written: it exists, and Calendar.from_ical fails on it
TornFile == [ok |-> FALSE, vevents |-> <<>>, torn |-> TRUE]

\* sync_local: the dicts it returns (of the success dict, its status and
\* message), and no dict while it runs
NoResult == [status |-> "none", message |-> ""]
Success == [status |-> "success", message |-> "Sincronizacao concluida!"]
Failure(message) == [status |-> "error", message |-> message]

\* sync_local: except Exception as e: return {'status': 'error', 'message': str(e)}
Propagated(e) == [status |-> "raised", message |-> e]

Caught(e) == Failure(e)

\* sync_calendars: result.get('status') == 'success'
sync_calendars(res) == res.status = "success"

\* extract_events: the dict built for one VEVENT; a component that carries
\* CATEGORIES is marked already_processed
ExtractedEvent(source, component) ==
    [source |-> source,
     uid |-> component.uid,
     summary |-> component.summary,
     dtstart |-> component.dtstart,
     dtend |-> component.dtend,
     description |-> component.description,
     component |-> component,
     already_processed |-> component.categories # <<>>]

\* the keys of the calendars dict in insertion order: AIRBNB, BOOKING, VRBO
\* after the downloads, IMPORT first when the dict is made from the cached
\* import_calendar.ics
DictKeys(cals) ==
    IF "IMPORT" \in DOMAIN cals THEN <<"IMPORT">> \o SOURCES ELSE SOURCES

\* no source raised
NoneRaised == [s \in {} |-> 0]

\* the sources extract_events walks: those whose calendar is not None
OkKeys(cals) == {s \in DOMAIN cals : cals[s].ok}

\* extract_events with its try around the whole loop: the first exception
\* ends the extraction with nothing
ExtractFromUntilRaise(cals, cut) ==
    IF DOMAIN cut # {} THEN <<>>
    ELSE Concat([i \in 1..Len(DictKeys(cals)) |->
             IF cals[DictKeys(cals)[i]].ok
             THEN [j \in 1..Len(cals[DictKeys(cals)[i]].vevents) |->
                      ExtractedEvent(DictKeys(cals)[i],
                                     cals[DictKeys(cals)[i]].vevents[j])]
             ELSE <<>>])

\* extract_events: calendars.items() in insertion order, a None calendar
\* skipped; the try/except inside the loop ends the walk of a source at its
\* exception, keeps the cut[source] events appended before it and goes on
\* with the next source
ExtractFrom(cals, cut) ==
    Concat([i \in 1..Len(DictKeys(cals)) |->
        LET source == DictKeys(cals)[i]
            walked == IF source \in DOMAIN cut THEN cut[source]
                      ELSE Len(cals[source].vevents)
        IN IF cals[source].ok
           THEN [j \in 1..walked |->
                    ExtractedEvent(source, cals[source].vevents[j])]
           ELSE <<>>])

\* extract_events when no walk raises
extract_events(cals) == ExtractFrom(cals, NoneRaised)

-----------------------------------------------------------------------------
(* Deduplicator *)

\* deduplicate_events: the grouping key
DedupKey(event) == <<to_date(event.dtstart), to_date(event.dtend), event.summary>>

\* the keys of the groups dict, in insertion order
RECURSIVE GroupKeys(_, _)
GroupKeys(evs, seen) ==
    IF evs = <<>> THEN <<>>
    ELSE IF DedupKey(Head(evs)) \in seen
         THEN GroupKeys(Tail(evs), seen)
         ELSE <<DedupKey(Head(evs))>>
              \o GroupKeys(Tail(evs), seen \cup {DedupKey(Head(evs))})

Group(evs, key) == SelectSeq(evs, LAMBDA e : DedupKey(e) = key)

\* max(group, key=len(description)): the first item of greatest length wins
BestOfByLastMax(group) ==
    LET best(acc, e) == IF Len(e.description) >= Len(acc.description) THEN e ELSE acc
    IN FoldLeft(best, Head(group), Tail(group))

BestOf(group) ==
    LET best(acc, e) == IF Len(e.description) > Len(acc.description) THEN e ELSE acc
    IN FoldLeft(best, Head(group), Tail(group))

deduplicate_events(evs) ==
    LET keys == GroupKeys(evs, {})
    IN [i \in 1..Len(keys) |-> BestOf(Group(evs, keys[i]))]

-----------------------------------------------------------------------------
(* Category labels *)

\* str.upper() on the labels that occur
Upper(label) ==
    CASE label = "reservation" -> "RESERVATION"
      [] label = "prep-time" -> "PREP-TIME"
      [] label = "manual-block" -> "MANUAL-BLOCK"
      [] label = "manual-remove" -> "MANUAL-REMOVE"
      [] OTHER -> label

\* 'LABEL' in categories_str.upper(): the test merge_calendars,
\* get_manual_blocks, get_manual_removes and process_calendar_data make
HasCategory(categories, label) ==
    \E i \in 1..Len(categories) : Upper(categories[i]) = label

-----------------------------------------------------------------------------
(* Buffer Expander: create_import_calendar *)

\* the three VEVENTs emitted for one extracted event (sync.py:495-555)
ReservaEvent(event, start_date, end_date, stamp) ==
    Stamped(VEvent(event.uid,
           <<"Reserva", event.source, ToString(start_date.day), "a",
             ToString(end_date.day)>>,
           start_date, end_date,
           <<event.source, "Check-in", ToString(start_date.day), "Check-out",
             ToString(end_date.day)>>,
           <<"RESERVATION">>), stamp)

TpBeforeEventInsideStay(event, start_date, end_date, before, stamp) ==
    Stamped(VEvent(event.uid \o "-tp-before",
           <<"TP Antes", event.source, ToString(start_date.day), "a",
             ToString(start_date.day + before)>>,
           start_date, PlusDays(start_date, before),
           <<"Tempo de Preparacao", event.source, ToString(start_date.day),
             "a", ToString(end_date.day)>>,
           <<"PREP-TIME">>), stamp)

TpBeforeEvent(event, start_date, end_date, before, stamp) ==
    Stamped(VEvent(event.uid \o "-tp-before",
           <<"TP Antes", event.source, ToString(start_date.day - before), "a",
             ToString(start_date.day)>>,
           PlusDays(start_date, -before), start_date,
           <<"Tempo de Preparacao", event.source, ToString(start_date.day),
             "a", ToString(end_date.day)>>,
           <<"PREP-TIME">>), stamp)

TpAfterEvent(event, start_date, end_date, after, stamp) ==
    Stamped(VEvent(event.uid \o "-tp-after",
           <<"TP Depois", event.source, ToString(end_date.day), "a",
             ToString(end_date.day + after)>>,
           end_date, PlusDays(end_date, after),
           <<"Tempo de Preparacao", event.source, ToString(start_date.day),
             "a", ToString(end_date.day)>>,
           <<"PREP-TIME">>), stamp)

\* one iteration of the loop of create_import_calendar: the VEVENTs it adds
ImportEventsOf(event, before, after, stamp) ==
    IF event.already_processed THEN <<event.component>>
    ELSE LET dtstart == to_datetime(event.dtstart)
             dtend == to_datetime(event.dtend)
         IN IF ~Truthy(dtstart) \/ ~Truthy(dtend) THEN <<>>
            ELSE LET start_date == to_date(dtstart)
                     end_date == to_date(dtend)
                 IN <<ReservaEvent(event, start_date, end_date, stamp),
                      TpBeforeEvent(event, start_date, end_date, before, stamp),
                      TpAfterEvent(event, start_date, end_date, after, stamp)>>

create_import_calendar(evs, before, after, stamp) ==
    Calendar(Concat([i \in 1..Len(evs) |->
                        ImportEventsOf(evs[i], before, after, stamp)]))

-----------------------------------------------------------------------------
(* Directive Parser and merge: get_manual_removes, get_manual_blocks,
   merge_calendars *)

\* the set of (start_date, end_date) ranges of the MANUAL-REMOVE events
get_manual_removes(manual_calendar) ==
    IF ~manual_calendar.ok THEN {}
    ELSE {<<to_date(c.dtstart), to_date(c.dtend)>> :
            c \in {x \in Range(manual_calendar.vevents) :
                     /\ HasCategory(x.categories, "MANUAL-REMOVE")
                     /\ Truthy(to_date(x.dtstart))
                     /\ Truthy(to_date(x.dtend))}}

\* the components of the MANUAL-BLOCK events, in calendar order
get_manual_blocks(manual_calendar) ==
    IF ~manual_calendar.ok THEN <<>>
    ELSE SelectSeq(manual_calendar.vevents,
                   LAMBDA c : HasCategory(c.categories, "MANUAL-BLOCK"))

\* merge_calendars keeping the reservations alone
KeptInMasterReservationsOnly(component, manual_removes) ==
    HasCategory(component.categories, "RESERVATION")

\* merge_calendars: whether a component of the import calendar goes to master
KeptInMaster(component, manual_removes) ==
    IF HasCategory(component.categories, "RESERVATION") THEN TRUE
    ELSE IF HasCategory(component.categories, "PREP-TIME")
         THEN LET start_date == to_date(component.dtstart)
                  end_date == to_date(component.dtend)
              IN ~(/\ Truthy(start_date)
                   /\ Truthy(end_date)
                   /\ <<start_date, end_date>> \in manual_removes)
         ELSE TRUE

merge_calendars(import_calendar, manual_calendar) ==
    LET manual_blocks == get_manual_blocks(manual_calendar)
        manual_removes == get_manual_removes(manual_calendar)
    IN Calendar(SelectSeq(import_calendar.vevents,
                          LAMBDA c : KeptInMaster(c, manual_removes))
                \o manual_blocks)

-----------------------------------------------------------------------------
(* ICS readers *)

\* backend/ics.py ICSHandler.read_ics_file: the dict of one VEVENT, its dates
\* as ISO strings; None (read by the callers as []) for a missing file or a
\* calendar without events
IcsDict(component) ==
    [uid |-> component.uid,
     summary |-> component.summary,
     dtstart |-> _extract_date_iso(component.dtstart),
     dtend |-> _extract_date_iso(component.dtend),
     description |-> component.description,
     categories |-> component.categories]

read_ics_file(file) ==
    IF ~file.ok THEN <<>>
    ELSE [i \in 1..Len(file.vevents) |-> IcsDict(file.vevents[i])]

\* backend/manual_editor.py load_import_events / load_manual_events: the same
\* dict, a missing date left as None
EditorDict(component) ==
    [uid |-> component.uid,
     summary |-> component.summary,
     dtstart |-> IF component.dtstart = None THEN None
                 ELSE isoformat(component.dtstart),
     dtend |-> IF component.dtend = None THEN None
               ELSE isoformat(component.dtend),
     description |-> component.description,
     categories |-> component.categories]

load_editor_events(file) ==
    IF ~file.ok THEN <<>>
    ELSE [i \in 1..Len(file.vevents) |-> EditorDict(file.vevents[i])]

-----------------------------------------------------------------------------
(* Night Resolver: convert_events_to_nights, apply_night_overlay_rules *)

\* A night map is a function from the days it has an entry for.
Night(event) ==
    [category |-> event.categories, description |-> event.description,
     uid |-> event.uid]

\* the loop of convert_events_to_nights as while current <= dtend
NightsAfterEventInclusive(night_map, event) ==
    LET dtstart == to_date(event.dtstart)
        dtend == to_date(event.dtend)
    IN IF ~Truthy(dtstart) \/ ~Truthy(dtend) THEN night_map
       ELSE LET span == dtstart.day .. dtend.day
            IN [d \in DOMAIN night_map \cup span |->
                   IF d \in span THEN Night(event) ELSE night_map[d]]

\* one iteration of the loop of convert_events_to_nights: every day of
\* [dtstart, dtend) is assigned, whatever the map held for it
NightsAfterEvent(night_map, event) ==
    LET dtstart == to_date(event.dtstart)
        dtend == to_date(event.dtend)
    IN IF ~Truthy(dtstart) \/ ~Truthy(dtend) THEN night_map
       ELSE LET span == dtstart.day .. (dtend.day - 1)
            IN [d \in DOMAIN night_map \cup span |->
                   IF d \in span THEN Night(event) ELSE night_map[d]]

convert_events_to_nights(evs) == FoldLeft(NightsAfterEvent, <<>>, evs)

\* apply_night_overlay_rules, the body of its loop for one manual night
OverlayNightNoSovereign(nights, imp_nights, night_date, manual_event) ==
    [d \in DOMAIN nights \cup {night_date} |->
        IF d = night_date THEN manual_event ELSE nights[d]]

OverlayNightBlockAlways(nights, imp_nights, night_date, manual_event) ==
    LET has_import == night_date \in DOMAIN imp_nights
        set == [d \in DOMAIN nights \cup {night_date} |->
                   IF d = night_date THEN manual_event ELSE nights[d]]
    IN IF has_import /\ imp_nights[night_date].category = <<"RESERVATION">>
       THEN nights
       ELSE set

OverlayNight(nights, imp_nights, night_date, manual_event) ==
    LET has_import == night_date \in DOMAIN imp_nights
        import_category == IF has_import THEN imp_nights[night_date].category
                           ELSE <<>>
        manual_category == manual_event.category
        set == [d \in DOMAIN nights \cup {night_date} |->
                   IF d = night_date THEN manual_event ELSE nights[d]]
    IN IF has_import /\ import_category = <<"RESERVATION">> THEN nights
       ELSE IF manual_category = <<"MANUAL-REMOVE">> THEN set
       ELSE IF manual_category = <<"MANUAL-BLOCK">>
            THEN IF ~has_import \/ import_category = <<"AVAILABLE">>
                 THEN set ELSE nights
       ELSE set

RECURSIVE OverlayLoop(_, _, _, _)
OverlayLoop(nights, imp_nights, man_nights, todo) ==
    IF todo = {} THEN nights
    ELSE LET night_date == CHOOSE d \in todo : \A e \in todo : d <= e
         IN OverlayLoop(OverlayNight(nights, imp_nights, night_date,
                                     man_nights[night_date]),
                        imp_nights, man_nights, todo \ {night_date})

apply_night_overlay_rules(imp_nights, man_nights) ==
    OverlayLoop(imp_nights, imp_nights, man_nights, DOMAIN man_nights)

-----------------------------------------------------------------------------
(* main.py api_calendar_nights: the night map of master_calendar.ics *)

\* Days are counted from the date.today() of the request.
NIGHTS_WINDOW_BEFORE == 365
NIGHTS_WINDOW_AFTER == 730

NightsWindow == (0 - NIGHTS_WINDOW_BEFORE) .. NIGHTS_WINDOW_AFTER

AvailableNight ==
    [category |-> <<"AVAILABLE">>, description |-> <<"Disponivel">>, uid |-> ""]

\* every day of the window AVAILABLE, then final_nights.update(master_nights)
api_calendar_nights(master_events) ==
    LET master_nights == convert_events_to_nights(master_events)
    IN [d \in NightsWindow \cup DOMAIN master_nights |->
           IF d \in DOMAIN master_nights THEN master_nights[d]
           ELSE AvailableNight]

-----------------------------------------------------------------------------
(* Manual editor day grid: ManualEditorHandler.process_calendar_data *)

\* Days are counted from the date.today() of the call: the grid covers
\* today .. today + 90 days, both included.
EDITOR_WINDOW_DAYS == 90

EditorWindow == 0..EDITOR_WINDOW_DAYS

COLORMAP(category) ==
    CASE category = "available" -> "4dd9ff"
      [] category = "reserved" -> "ff0000"
      [] category = "prep-time" -> "ffaa00"
      [] category = "manual-block" -> "00ff00"
      [] category = "manual-remove" -> "ffff00"

InitialCalendarData ==
    [d \in EditorWindow |->
        [category |-> "available", descriptions |-> <<>>,
         color |-> COLORMAP("available")]]

\* the days an event dict covers: the date part of dtstart (split at 'T'),
\* up to the date part of dtend, or nothing when dtend is missing
EditorSpan(event) ==
    IF event.dtstart = None THEN {}
    ELSE IF event.dtend = None THEN {}
    ELSE event.dtstart.day .. (event.dtend.day - 1)

\* manual_editor.py:240-258, the import event applied to one day of the grid
ImportDay(entry, event) ==
    LET cat == IF HasCategory(event.categories, "RESERVATION") THEN "reserved"
               ELSE IF /\ HasCategory(event.categories, "PREP-TIME")
                       /\ entry.category = "available" THEN "prep-time"
               ELSE entry.category
        descs == IF \E i \in 1..Len(entry.descriptions) :
                        entry.descriptions[i] = event.summary
                 THEN entry.descriptions
                 ELSE Append(entry.descriptions, event.summary)
    IN [category |-> cat, descriptions |-> descs, color |-> COLORMAP(cat)]

\* manual_editor.py:296-309, the manual event applied to one day of the grid
ManualDay(entry, event) ==
    LET cat == IF HasCategory(event.categories, "MANUAL-BLOCK")
               THEN "manual-block"
               ELSE IF HasCategory(event.categories, "MANUAL-REMOVE")
                    THEN "manual-remove"
               ELSE entry.category
    IN [entry EXCEPT !.category = cat, !.color = COLORMAP(cat)]

ApplyImportEvent(data, event) ==
    [d \in DOMAIN data |->
        IF d \in EditorSpan(event) THEN ImportDay(data[d], event) ELSE data[d]]

ApplyManualEvent(data, event) ==
    [d \in DOMAIN data |->
        IF d \in EditorSpan(event) THEN ManualDay(data[d], event) ELSE data[d]]

process_calendar_data(imp_events, man_events) ==
    FoldLeft(ApplyManualEvent,
             FoldLeft(ApplyImportEvent, InitialCalendarData, imp_events),
             man_events)

-----------------------------------------------------------------------------
(* Inputs *)

\* A stay as a booking feed reports it: no CATEGORIES
Stay(uid, dtstart, dtend) ==
    VEvent(uid, <<"Reserved">>, dtstart, dtend, <<>>, <<>>)

\* Feeds of a sync run, days of January: two back-to-back stays, Jan-10 to
\* Jan-15 and Jan-15 to Jan-20 (the second with DATE-TIME values), and a stay
\* Jan-12 to Jan-17 that overlaps both
FeedPool ==
    {Stay("r1", Date(10), Date(15)),
     Stay("r2", DateTime(15, 15), DateTime(20, 11)),
     Stay("r3", Date(12), Date(17))}

\* Feeds for the deduplicator: the same stay with and without a time,
\* summaries that differ in case only, descriptions of length 0, 1, 1
DedupPool ==
    {VEvent("u", summary, dtstart, Date(3), description, <<>>) :
        summary \in {<<"Guest A">>, <<"guest a">>},
        dtstart \in {Date(1), DateTime(1, 15), Date(2)},
        description \in {<<>>, <<"x">>, <<"y">>}}

\* An event as the manual editor writes it (block_dates, remove_events,
\* block_date_range, remove_event_range): DATE values, one category
Directive(category, start, end) ==
    VEvent(Upper(category) \o "-" \o ToString(start) \o "-" \o ToString(end),
           <<category, ToString(start), "a", ToString(end)>>,
           Date(start), Date(end),
           <<category, ToString(start), "a", ToString(end)>>,
           <<category>>)

\* manual_calendar.ics of a sync run: the single days Jan-09 and Jan-15, and
\* the two-day range Jan-09 to Jan-11 (end exclusive)
ManualPool ==
    {Directive(category, span[1], span[2]) :
        category \in {"MANUAL-BLOCK", "MANUAL-REMOVE"},
        span \in {<<9, 10>>, <<15, 16>>, <<9, 11>>}}

\* import_calendar.ics as the API finds it
ImportReadPool ==
    {VEvent("i", <<"imp">>, Date(span[1]), Date(span[2]), <<"d">>, <<category>>) :
        category \in {"RESERVATION", "PREP-TIME", "AVAILABLE"},
        span \in {<<1, 2>>, <<1, 3>>}}

\* manual_calendar.ics as the API finds it
ManualReadPool ==
    {Directive(category, span[1], span[2]) :
        category \in {"MANUAL-BLOCK", "MANUAL-REMOVE", "NOTE"},
        span \in {<<1, 2>>, <<2, 3>>}}

\* Feeds of a run over existing files: a stay Jan-10 to Jan-15, a record with
\* an inverted range, one without DTEND, a second VEVENT of the same dates
\* under another summary and uid, and a VEVENT that carries a category of the
\* feed's own
RunPool ==
    {Stay("r1", Date(10), Date(15)),
     Stay("r4", Date(15), Date(10)),
     Stay("r5", Date(10), None),
     VEvent("r6", <<"Blocked">>, Date(10), Date(15), <<>>, <<>>),
     VEvent("r7", <<"Closed">>, Date(12), Date(13), <<>>, <<"BLOCKED">>)}

\* manual_calendar.ics of such a run: missing, or one blocked day
RunManualFiles == {NoCalendar, Calendar(<<Directive("MANUAL-BLOCK", 20, 21)>>)}

\* master_calendar.ics as /api/calendar/nights finds it, days counted from
\* today: events inside the window, one across its last day (today + 730),
\* one across its first day (today - 365) and one beyond it
MasterReadPool ==
    {VEvent("m1", <<"Reserva">>, Date(1), Date(3), <<"d">>, <<"RESERVATION">>),
     VEvent("m2", <<"TP Antes">>, Date(0), Date(1), <<"d">>, <<"PREP-TIME">>),
     VEvent("m3", <<"TP Depois">>, Date(3), Date(4), <<"d">>, <<"PREP-TIME">>),
     Directive("MANUAL-BLOCK", 2, 3),
     VEvent("m5", <<"Reserva">>, Date(730), Date(732), <<"d">>, <<"RESERVATION">>),
     VEvent("m6", <<"Reserva">>, Date(-366), Date(-364), <<"d">>, <<"RESERVATION">>),
     Directive("MANUAL-BLOCK", 800, 801)}

SourceSet == Range(SOURCES)

\* the three calendars whose events are l[1..i], l[i+1..j] and l[j+1..];
\* a source in failed (it has no events) is a failed download
FeedsOf(l, i, j, failed) ==
    LET part == [s \in SourceSet |->
                    CASE s = "AIRBNB" -> SubSeq(l, 1, i)
                      [] s = "BOOKING" -> SubSeq(l, i + 1, j)
                      [] s = "VRBO" -> SubSeq(l, j + 1, Len(l))]
    IN [s \in SourceSet |->
           IF s \in failed THEN NoCalendar ELSE Calendar(part[s])]

EmptySources(l, i, j) ==
    {s \in SourceSet : CASE s = "AIRBNB" -> i = 0
                         [] s = "BOOKING" -> i = j
                         [] s = "VRBO" -> j = Len(l)}

\* a calendar file: missing, or holding up to n events of the pool
Files(pool, n) == {NoCalendar} \cup {Calendar(l) : l \in SeqsUpTo(pool, n)}

-----------------------------------------------------------------------------
(* State machine *)

NoCalendars == [s \in SourceSet |-> NoCalendar]

\* no method of the handler called yet
NoCall == [op |-> "none", dates |-> <<>>, before |-> <<>>, n |-> 0]

\* a session without keys, as a browser without cookie has it
NoSession == [k \in {} |-> ""]

\* no guarded view requested yet
NoView == [guard |-> "none", ran |-> FALSE, ops |-> 0, user |-> "<None>"]

\* the request is not answered yet
NoResponse == [code |-> 0, status |-> "none"]

\* no second execution of sync_local has begun
NoRival == [pc |-> "idle", import_cal |-> NoCalendar, master_cal |-> NoCalendar]

\* the two output files, as a run finds them
OutputFiles == [import_ics |-> import_ics, master_ics |-> master_ics]

InitCommon ==
    /\ calendars = NoCalendars
    /\ all_events = <<>>
    /\ events = <<>>
    /\ import_cal = NoCalendar
    /\ manual_cal = NoCalendar
    /\ master_cal = NoCalendar
    /\ import_nights = <<>>
    /\ manual_nights = <<>>
    /\ final_nights = <<>>
    /\ calendar_data = <<>>
    /\ rival = NoRival
    /\ observed = NoCalendar
    /\ nights_response = <<>>
    /\ result = NoResult
    /\ raised = NoneRaised
    /\ pushed = <<>>
    /\ response = NoResponse
    /\ manual_events = <<>>
    /\ returned = "none"
    /\ reloaded = <<>>
    /\ last_call = NoCall
    /\ uuids = 0
    /\ session = NoSession
    /\ session_ops = <<>>
    /\ admitted = NoView

\* fetch_all_calendars returns None when every download failed, and
\* sync_local then returns status 'error'
FetchOutcomeIgnoringFailure(failed) == "fetched"

FetchOutcome(failed) == IF failed = SourceSet THEN "error" ELSE "fetched"

\* sync_local: fetch_all_calendars on its download path (force_download, or
\* no import_calendar.ics that parses): the three downloads return at most
\* MaxEvents events of the pool, any source without events may be a failed
\* download, and the result is None when all three failed
FetchAllCalendars(pool) ==
    /\ pc = "start"
    /\ force_download \/ ~import_ics.ok
    /\ \E l \in SeqsUpTo(pool, MaxEvents) :
        \E i \in 0..Len(l) :
          \E j \in i..Len(l) :
            \E failed \in SUBSET EmptySources(l, i, j) :
              /\ calendars' = FeedsOf(l, i, j, failed)
              /\ pc' = FetchOutcome(failed)
              /\ result' = IF FetchOutcome(failed) = "error"
                           THEN Failure("Nenhum calendario importado")
                           ELSE result
    /\ UNCHANGED <<BUFFER_DAYS_BEFORE, BUFFER_DAYS_AFTER, all_events, events,
                   import_cal, manual_cal, master_cal, import_ics, manual_ics,
                   master_ics, import_nights, manual_nights, final_nights,
                   calendar_data>>
    /\ UNCHANGED <<run_args, concurrent>>
    /\ UNCHANGED <<editor, auth>>
    /\ UNCHANGED <<raised, frontend>>

\* sync_local: fetch_all_calendars(force_download=False) when
\* import_calendar.ics exists and parses: no download, the dict holds the
\* cached calendar under IMPORT
FetchFromCache ==
    /\ pc = "start"
    /\ ~force_download
    /\ import_ics.ok
    /\ calendars' = [s \in {"IMPORT"} \cup SourceSet |->
                        IF s = "IMPORT" THEN import_ics ELSE NoCalendar]
    /\ pc' = "fetched"
    /\ UNCHANGED <<BUFFER_DAYS_BEFORE, BUFFER_DAYS_AFTER, all_events, events,
                   import_cal, manual_cal, master_cal, import_ics, manual_ics,
                   master_ics, import_nights, manual_nights, final_nights,
                   calendar_data>>
    /\ UNCHANGED <<run_args, concurrent>>
    /\ UNCHANGED <<editor, auth>>
    /\ UNCHANGED <<result, raised, frontend>>

\* sync_local: extract_events; the run ends in error when nothing was
\* extracted.  With may_raise the walk of any source may raise after any
\* number of its events.
ExtractEvents(may_raise) ==
    /\ pc = "fetched"
    /\ \E broken \in (IF may_raise THEN SUBSET OkKeys(calendars) ELSE {{}}) :
          \E cut \in [broken -> 0..MaxEvents] :
             /\ \A s \in broken : cut[s] <= Len(calendars[s].vevents)
             /\ raised' = cut
             /\ all_events' = ExtractFrom(calendars, cut)
    /\ pc' = IF all_events' = <<>> THEN "error" ELSE "extracted"
    /\ result' = IF all_events' = <<>> THEN Failure("Nenhum evento encontrado")
                 ELSE result
    /\ UNCHANGED <<BUFFER_DAYS_BEFORE, BUFFER_DAYS_AFTER, calendars, events,
                   import_cal, manual_cal, master_cal, import_ics, manual_ics,
                   master_ics, import_nights, manual_nights, final_nights,
                   calendar_data>>
    /\ UNCHANGED <<run_args, concurrent>>
    /\ UNCHANGED <<editor, auth>>
    /\ UNCHANGED frontend

\* sync_local: deduplicate_events
DeduplicateEvents ==
    /\ pc = "extracted"
    /\ events' = deduplicate_events(all_events)
    /\ pc' = "deduplicated"
    /\ UNCHANGED <<BUFFER_DAYS_BEFORE, BUFFER_DAYS_AFTER, calendars, all_events,
                   import_cal, manual_cal, master_cal, import_ics, manual_ics,
                   master_ics, import_nights, manual_nights, final_nights,
                   calendar_data>>
    /\ UNCHANGED <<run_args, concurrent>>
    /\ UNCHANGED <<editor, auth>>
    /\ UNCHANGED <<result, raised, frontend>>

\* sync_local: create_import_calendar
CreateImportCalendar ==
    /\ pc = "deduplicated"
    /\ import_cal' = create_import_calendar(events, BUFFER_DAYS_BEFORE,
                                            BUFFER_DAYS_AFTER, now)
    /\ pc' = "created"
    /\ UNCHANGED <<BUFFER_DAYS_BEFORE, BUFFER_DAYS_AFTER, calendars, all_events,
                   events, manual_cal, master_cal, import_ics, manual_ics,
                   master_ics, import_nights, manual_nights, final_nights,
                   calendar_data>>
    /\ UNCHANGED <<run_args, concurrent>>
    /\ UNCHANGED <<editor, auth>>
    /\ UNCHANGED <<result, raised, frontend>>

\* sync_local: load_manual_calendar reads manual_calendar.ics as the operator
\* left it, one of files: missing (None), or the events the editor saved
LoadManualCalendar(files) ==
    /\ pc = "created"
    /\ \E file \in files :
          /\ manual_ics' = file
          /\ manual_cal' = file
    /\ pc' = "loaded"
    /\ UNCHANGED <<BUFFER_DAYS_BEFORE, BUFFER_DAYS_AFTER, calendars, all_events,
                   events, import_cal, master_cal, import_ics, master_ics,
                   import_nights, manual_nights, final_nights, calendar_data>>
    /\ UNCHANGED <<run_args, concurrent>>
    /\ UNCHANGED <<editor, auth>>
    /\ UNCHANGED <<result, raised, frontend>>

\* sync_local: merge_calendars
MergeCalendars ==
    /\ pc = "loaded"
    /\ master_cal' = merge_calendars(import_cal, manual_cal)
    /\ pc' = "merged"
    /\ UNCHANGED <<BUFFER_DAYS_BEFORE, BUFFER_DAYS_AFTER, calendars, all_events,
                   events, import_cal, manual_cal, import_ics, manual_ics,
                   master_ics, import_nights, manual_nights, final_nights,
                   calendar_data>>
    /\ UNCHANGED <<run_args, concurrent>>
    /\ UNCHANGED <<editor, auth>>
    /\ UNCHANGED <<result, raised, frontend>>

\* sync_local: export_to_file of import_calendar.ics, then of
\* master_calendar.ics, both succeeding and nothing else running meanwhile
ExportToFiles ==
    /\ pc = "merged"
    /\ import_ics' = import_cal
    /\ master_ics' = master_cal
    /\ pc' = "done"
    /\ result' = Success
    /\ UNCHANGED <<BUFFER_DAYS_BEFORE, BUFFER_DAYS_AFTER, calendars, all_events,
                   events, import_cal, manual_cal, master_cal, manual_ics,
                   import_nights, manual_nights, final_nights, calendar_data>>
    /\ UNCHANGED <<run_args, concurrent>>
    /\ UNCHANGED <<editor, auth>>
    /\ UNCHANGED <<raised, frontend>>

\* export_to_file(import_cal, IMPORT_CALENDAR_PATH), step by step:
\* open(filepath, 'wb') truncates the file, f.write and the close fill it
OpenImportFile ==
    /\ pc = "merged"
    /\ import_ics' = TornFile
    /\ pc' = "import_open"
    /\ UNCHANGED <<BUFFER_DAYS_BEFORE, BUFFER_DAYS_AFTER, calendars, all_events,
                   events, import_cal, manual_cal, master_cal, manual_ics,
                   master_ics, import_nights, manual_nights, final_nights,
                   calendar_data>>
    /\ UNCHANGED <<run_args, concurrent>>
    /\ UNCHANGED <<editor, auth>>
    /\ UNCHANGED <<result, raised, frontend>>

WriteImportFile ==
    /\ pc = "import_open"
    /\ import_ics' = import_cal
    /\ pc' = "import_written"
    /\ UNCHANGED <<BUFFER_DAYS_BEFORE, BUFFER_DAYS_AFTER, calendars, all_events,
                   events, import_cal, manual_cal, master_cal, manual_ics,
                   master_ics, import_nights, manual_nights, final_nights,
                   calendar_data>>
    /\ UNCHANGED <<run_args, concurrent>>
    /\ UNCHANGED <<editor, auth>>
    /\ UNCHANGED <<result, raised, frontend>>

\* export_to_file(master_cal, MASTER_CALENDAR_PATH), step by step
OpenMasterFile ==
    /\ pc = "import_written"
    /\ master_ics' = TornFile
    /\ pc' = "master_open"
    /\ UNCHANGED <<BUFFER_DAYS_BEFORE, BUFFER_DAYS_AFTER, calendars, all_events,
                   events, import_cal, manual_cal, master_cal, import_ics,
                   manual_ics, import_nights, manual_nights, final_nights,
                   calendar_data>>
    /\ UNCHANGED <<run_args, concurrent>>
    /\ UNCHANGED <<editor, auth>>
    /\ UNCHANGED <<result, raised, frontend>>

WriteMasterFile ==
    /\ pc = "master_open"
    /\ master_ics' = master_cal
    /\ pc' = "done"
    /\ result' = Success
    /\ UNCHANGED <<BUFFER_DAYS_BEFORE, BUFFER_DAYS_AFTER, calendars, all_events,
                   events, import_cal, manual_cal, master_cal, import_ics,
                   manual_ics, import_nights, manual_nights, final_nights,
                   calendar_data>>
    /\ UNCHANGED <<run_args, concurrent>>
    /\ UNCHANGED <<editor, auth>>
    /\ UNCHANGED <<raised, frontend>>

\* export_to_file returns False: an exception before the open (mkdir, to_ical,
\* the open itself) leaves the file as it was, one after it (the write)
\* leaves it truncated; sync_local returns status 'error' at once
ExportFails ==
    /\ pc \in {"merged", "import_open", "import_written", "master_open"}
    /\ pc' = "error"
    /\ result' = IF pc \in {"merged", "import_open"}
                 THEN Failure("Falha ao gravar import_calendar.ics")
                 ELSE Failure("Falha ao gravar master_calendar.ics")
    /\ UNCHANGED <<BUFFER_DAYS_BEFORE, BUFFER_DAYS_AFTER, calendars, all_events,
                   events, import_cal, manual_cal, master_cal, import_ics,
                   manual_ics, master_ics, import_nights, manual_nights,
                   final_nights, calendar_data>>
    /\ UNCHANGED <<run_args, concurrent>>
    /\ UNCHANGED <<editor, auth>>
    /\ UNCHANGED <<raised, frontend>>

\* sync_local: an exception in a call that has no handler of its own
\* (deduplicate_events, merge_calendars) reaches the except of sync_local
SyncRaises ==
    /\ pc \in {"extracted", "loaded"}
    /\ pc' = "error"
    /\ result' = Caught("exception")
    /\ UNCHANGED <<BUFFER_DAYS_BEFORE, BUFFER_DAYS_AFTER, calendars, all_events,
                   events, import_cal, manual_cal, master_cal, import_ics,
                   manual_ics, master_ics, import_nights, manual_nights,
                   final_nights, calendar_data>>
    /\ UNCHANGED <<run_args, concurrent>>
    /\ UNCHANGED <<editor, auth>>
    /\ UNCHANGED <<raised, frontend>>

\* main.py api_events: GET /api/events
ApiEvents ==
    /\ pc \in {"done", "idle"}
    /\ LET imp_events == read_ics_file(import_ics)
           man_events == read_ics_file(manual_ics)
       IN /\ import_nights' = convert_events_to_nights(imp_events)
          /\ manual_nights' = convert_events_to_nights(man_events)
          /\ final_nights' = apply_night_overlay_rules(
                                 convert_events_to_nights(imp_events),
                                 convert_events_to_nights(man_events))
    /\ pc' = "events"
    /\ UNCHANGED <<BUFFER_DAYS_BEFORE, BUFFER_DAYS_AFTER, calendars, all_events,
                   events, import_cal, manual_cal, master_cal, import_ics,
                   manual_ics, master_ics, calendar_data>>
    /\ UNCHANGED <<run_args, concurrent>>
    /\ UNCHANGED <<editor, auth>>
    /\ UNCHANGED <<result, raised, frontend>>

\* main.py api_calendar_nights: GET /api/calendar/nights, at any moment
ApiCalendarNights ==
    /\ observed' = master_ics
    /\ nights_response' = api_calendar_nights(read_ics_file(master_ics))
    /\ UNCHANGED <<BUFFER_DAYS_BEFORE, BUFFER_DAYS_AFTER, calendars, all_events,
                   events, import_cal, manual_cal, master_cal, import_ics,
                   manual_ics, master_ics, import_nights, manual_nights,
                   final_nights, calendar_data, pc>>
    /\ UNCHANGED <<run_args, rival>>
    /\ UNCHANGED <<editor, auth>>
    /\ UNCHANGED <<result, raised, frontend>>

\* A second request that reaches sync_local (/api/sync, /api/sync-manual,
\* /api/calendar/import, /api/calendar/save) while the first is served: no
\* lock is taken, so it begins whatever the position of the first
RivalStart ==
    /\ rival.pc = "idle"
    /\ rival' = [rival EXCEPT !.pc = "start"]
    /\ UNCHANGED <<BUFFER_DAYS_BEFORE, BUFFER_DAYS_AFTER, calendars, all_events,
                   events, import_cal, manual_cal, master_cal, import_ics,
                   manual_ics, master_ics, import_nights, manual_nights,
                   final_nights, calendar_data, pc>>
    /\ UNCHANGED <<run_args, observed, nights_response>>
    /\ UNCHANGED <<editor, auth>>
    /\ UNCHANGED <<result, raised, frontend>>

\* the second execution from fetch_all_calendars to merge_calendars (it
\* touches only its locals): the cached import calendar or a download of up
\* to MaxEvents events, all from AIRBNB
RivalRun(pool) ==
    /\ rival.pc = "start"
    /\ \E l \in SeqsUpTo(pool, MaxEvents) :
          LET cals == IF ~force_download /\ import_ics.ok
                      THEN [s \in {"IMPORT"} \cup SourceSet |->
                               IF s = "IMPORT" THEN import_ics ELSE NoCalendar]
                      ELSE FeedsOf(l, Len(l), Len(l), {})
              evs == extract_events(cals)
              imp == create_import_calendar(deduplicate_events(evs),
                         BUFFER_DAYS_BEFORE, BUFFER_DAYS_AFTER, now)
          IN rival' = IF evs = <<>> THEN [rival EXCEPT !.pc = "error"]
                      ELSE [pc |-> "merged", import_cal |-> imp,
                            master_cal |-> merge_calendars(imp, manual_ics)]
    /\ UNCHANGED <<BUFFER_DAYS_BEFORE, BUFFER_DAYS_AFTER, calendars, all_events,
                   events, import_cal, manual_cal, master_cal, import_ics,
                   manual_ics, master_ics, import_nights, manual_nights,
                   final_nights, calendar_data, pc>>
    /\ UNCHANGED <<run_args, observed, nights_response>>
    /\ UNCHANGED <<editor, auth>>
    /\ UNCHANGED <<result, raised, frontend>>

\* the second execution's export_to_file of import_calendar.ics
RivalOpenImportFile ==
    /\ rival.pc = "merged"
    /\ import_ics' = TornFile
    /\ rival' = [rival EXCEPT !.pc = "import_open"]
    /\ UNCHANGED <<BUFFER_DAYS_BEFORE, BUFFER_DAYS_AFTER, calendars, all_events,
                   events, import_cal, manual_cal, master_cal, manual_ics,
                   master_ics, import_nights, manual_nights, final_nights,
                   calendar_data, pc>>
    /\ UNCHANGED <<run_args, observed, nights_response>>
    /\ UNCHANGED <<editor, auth>>
    /\ UNCHANGED <<result, raised, frontend>>

RivalWriteImportFile ==
    /\ rival.pc = "import_open"
    /\ import_ics' = rival.import_cal
    /\ rival' = [rival EXCEPT !.pc = "import_written"]
    /\ UNCHANGED <<BUFFER_DAYS_BEFORE, BUFFER_DAYS_AFTER, calendars, all_events,
                   events, import_cal, manual_cal, master_cal, manual_ics,
                   master_ics, import_nights, manual_nights, final_nights,
                   calendar_data, pc>>
    /\ UNCHANGED <<run_args, observed, nights_response>>
    /\ UNCHANGED <<editor, auth>>
    /\ UNCHANGED <<result, raised, frontend>>

\* the second execution's export_to_file of master_calendar.ics
RivalOpenMasterFile ==
    /\ rival.pc = "import_written"
    /\ master_ics' = TornFile
    /\ rival' = [rival EXCEPT !.pc = "master_open"]
    /\ UNCHANGED <<BUFFER_DAYS_BEFORE, BUFFER_DAYS_AFTER, calendars, all_events,
                   events, import_cal, manual_cal, master_cal, import_ics,
                   manual_ics, import_nights, manual_nights, final_nights,
                   calendar_data, pc>>
    /\ UNCHANGED <<run_args, observed, nights_response>>
    /\ UNCHANGED <<editor, auth>>
    /\ UNCHANGED <<result, raised, frontend>>

RivalWriteMasterFile ==
    /\ rival.pc = "master_open"
    /\ master_ics' = rival.master_cal
    /\ rival' = [rival EXCEPT !.pc = "done"]
    /\ UNCHANGED <<BUFFER_DAYS_BEFORE, BUFFER_DAYS_AFTER, calendars, all_events,
                   events, import_cal, manual_cal, master_cal, import_ics,
                   manual_ics, import_nights, manual_nights, final_nights,
                   calendar_data, pc>>
    /\ UNCHANGED <<run_args, observed, nights_response>>
    /\ UNCHANGED <<editor, auth>>
    /\ UNCHANGED <<result, raised, frontend>>

\* manual_editor.py: load_import_events, load_manual_events, process_calendar_data
EditorCalendarData ==
    /\ pc = "idle"
    /\ calendar_data' = process_calendar_data(load_editor_events(import_ics),
                                              load_editor_events(manual_ics))
    /\ pc' = "editor"
    /\ UNCHANGED <<BUFFER_DAYS_BEFORE, BUFFER_DAYS_AFTER, calendars, all_events,
                   events, import_cal, manual_cal, master_cal, import_ics,
                   manual_ics, master_ics, import_nights, manual_nights,
                   final_nights>>
    /\ UNCHANGED <<run_args, concurrent>>
    /\ UNCHANGED <<editor, auth>>
    /\ UNCHANGED <<result, raised, frontend>>

-----------------------------------------------------------------------------
(* Specifications *)

\* A sync run (sync_local with force_download) on fresh files, then /api/events
Init ==
    /\ InitCommon
    /\ route = "none"
    /\ BUFFER_DAYS_BEFORE \in 0..MaxBuffer
    /\ BUFFER_DAYS_AFTER \in 0..MaxBuffer
    /\ import_ics = NoCalendar
    /\ manual_ics = NoCalendar
    /\ master_ics = NoCalendar
    /\ force_download = TRUE
    /\ now = 0
    /\ pre_run = OutputFiles
    /\ pc = "start"

Next ==
    \/ FetchAllCalendars(FeedPool)
    \/ ExtractEvents(FALSE)
    \/ DeduplicateEvents
    \/ CreateImportCalendar
    \/ LoadManualCalendar(Files(ManualPool, MaxManual))
    \/ MergeCalendars
    \/ ExportToFiles
    \/ ApiEvents

Spec == Init /\ [][Next]_vars

\* The deduplicator on feeds that repeat a stay
InitDedup ==
    /\ InitCommon
    /\ route = "none"
    /\ BUFFER_DAYS_BEFORE = 1
    /\ BUFFER_DAYS_AFTER = 1
    /\ import_ics = NoCalendar
    /\ manual_ics = NoCalendar
    /\ master_ics = NoCalendar
    /\ force_download = TRUE
    /\ now = 0
    /\ pre_run = OutputFiles
    /\ pc = "start"

NextDedup ==
    \/ FetchAllCalendars(DedupPool)
    \/ ExtractEvents(FALSE)
    \/ DeduplicateEvents

SpecDedup == InitDedup /\ [][NextDedup]_vars

\* The feeds of the earlier runs that left the output files of InitRuns, all
\* from AIRBNB: the stay; the stay and the VEVENT of the same dates; only the
\* record without DTEND (a calendar without events is written)
PriorFeeds ==
    {<<Stay("r1", Date(10), Date(15))>>,
     <<Stay("r1", Date(10), Date(15)),
       VEvent("r6", <<"Blocked">>, Date(10), Date(15), <<>>, <<>>)>>,
     <<Stay("r5", Date(10), None)>>}

\* import_calendar.ics as a successful run at time 0 wrote it
PriorImport(l) ==
    create_import_calendar(
        deduplicate_events(extract_events(FeedsOf(l, Len(l), Len(l), {}))),
        BUFFER_DAYS_BEFORE, BUFFER_DAYS_AFTER, 0)

\* One run of sync_local, with either argument, over the files earlier runs
\* left: none, those of a successful run, or a truncated import_calendar.ics
\* beside the master calendar of the run before; every step of its two
\* exports and their failures
InitRuns ==
    /\ InitCommon
    /\ route = "none"
    /\ BUFFER_DAYS_BEFORE = 1
    /\ BUFFER_DAYS_AFTER = 1
    /\ manual_ics \in RunManualFiles
    /\ \/ import_ics = NoCalendar /\ master_ics = NoCalendar
       \/ \E l \in PriorFeeds :
             /\ import_ics = PriorImport(l)
             /\ master_ics = merge_calendars(import_ics, manual_ics)
       \/ /\ import_ics = TornFile
          /\ master_ics = merge_calendars(
                              PriorImport(<<Stay("r1", Date(10), Date(15))>>),
                              manual_ics)
    /\ force_download \in BOOLEAN
    /\ now = MaxClock
    /\ pre_run = OutputFiles
    /\ pc = "start"

NextRuns ==
    \/ FetchFromCache
    \/ FetchAllCalendars(RunPool)
    \/ ExtractEvents(FALSE)
    \/ DeduplicateEvents
    \/ CreateImportCalendar
    \/ LoadManualCalendar({manual_ics})
    \/ MergeCalendars
    \/ OpenImportFile
    \/ WriteImportFile
    \/ OpenMasterFile
    \/ WriteMasterFile
    \/ ExportFails

SpecRuns == InitRuns /\ [][NextRuns]_vars

\* Feeds of two requests served at once: the stay Jan-10 to Jan-15
ConcurrentPool == {Stay("r1", Date(10), Date(15))}

\* Two executions of sync_local and a reader of master_calendar.ics, over the
\* files an earlier run left
InitConcurrent ==
    /\ InitCommon
    /\ route = "none"
    /\ BUFFER_DAYS_BEFORE = 1
    /\ BUFFER_DAYS_AFTER = 1
    /\ manual_ics \in RunManualFiles
    /\ import_ics = PriorImport(<<Stay("r1", Date(10), Date(15))>>)
    /\ master_ics = merge_calendars(import_ics, manual_ics)
    /\ force_download \in BOOLEAN
    /\ now = MaxClock
    /\ pre_run = OutputFiles
    /\ pc = "start"

NextConcurrent ==
    \/ FetchFromCache
    \/ FetchAllCalendars(ConcurrentPool)
    \/ ExtractEvents(FALSE)
    \/ DeduplicateEvents
    \/ CreateImportCalendar
    \/ LoadManualCalendar({manual_ics})
    \/ MergeCalendars
    \/ OpenImportFile
    \/ WriteImportFile
    \/ OpenMasterFile
    \/ WriteMasterFile
    \/ RivalStart
    \/ RivalRun(ConcurrentPool)
    \/ RivalOpenImportFile
    \/ RivalWriteImportFile
    \/ RivalOpenMasterFile
    \/ RivalWriteMasterFile
    \/ ApiCalendarNights

SpecConcurrent == InitConcurrent /\ [][NextConcurrent]_vars

\* The reader of master_calendar.ics: /api/calendar/nights
InitMaster ==
    /\ InitCommon
    /\ route = "none"
    /\ BUFFER_DAYS_BEFORE = 1
    /\ BUFFER_DAYS_AFTER = 1
    /\ import_ics = NoCalendar
    /\ manual_ics = NoCalendar
    /\ master_ics \in Files(MasterReadPool, MaxMasterRead)
    /\ force_download = TRUE
    /\ now = 0
    /\ pre_run = OutputFiles
    /\ pc = "idle"

NextMaster == ApiCalendarNights

SpecMaster == InitMaster /\ [][NextMaster]_vars

\* The readers of the calendar files: /api/events and the editor's day grid
InitNights ==
    /\ InitCommon
    /\ route = "none"
    /\ BUFFER_DAYS_BEFORE = 1
    /\ BUFFER_DAYS_AFTER = 1
    /\ import_ics \in Files(ImportReadPool, MaxImportRead)
    /\ manual_ics \in Files(ManualReadPool, MaxManualRead)
    /\ master_ics = NoCalendar
    /\ force_download = TRUE
    /\ now = 0
    /\ pre_run = OutputFiles
    /\ pc = "idle"

NextNights ==
    \/ ApiEvents
    \/ EditorCalendarData

SpecNights == InitNights /\ [][NextNights]_vars

-----------------------------------------------------------------------------
(* Properties *)

RESERVATION == <<"RESERVATION">>
PREP_TIME == <<"PREP-TIME">>
MANUAL_BLOCK == <<"MANUAL-BLOCK">>
MANUAL_REMOVE == <<"MANUAL-REMOVE">>
AVAILABLE == <<"AVAILABLE">>

\* C1: after apply_night_overlay_rules, every date whose import night has
\* category RESERVATION holds that same import entry in the result, whatever
\* the manual night map holds for the date.
C1_ReservationIsSovereign ==
    pc = "events" =>
        \A d \in DOMAIN import_nights :
            import_nights[d].category = RESERVATION =>
                /\ d \in DOMAIN final_nights
                /\ final_nights[d] = import_nights[d]

\* C1 witness: a reserved date that a MANUAL-BLOCK covers and a reserved date
\* that a MANUAL-REMOVE covers, both resolved.
C1_Witness ==
    /\ pc = "events"
    /\ \E d \in DOMAIN import_nights \cap DOMAIN manual_nights :
          /\ import_nights[d].category = RESERVATION
          /\ manual_nights[d].category = MANUAL_BLOCK
    /\ \E d \in DOMAIN import_nights \cap DOMAIN manual_nights :
          /\ import_nights[d].category = RESERVATION
          /\ manual_nights[d].category = MANUAL_REMOVE

\* C4 (as claimed): a MANUAL-REMOVE night leaves a date whose import category
\* is RESERVATION, and a date with no import entry, as it is in import_nights:
\* the same entry, or still no entry.
C4_RemoveChangesOnlyPrepTime ==
    pc = "events" =>
        \A d \in DOMAIN manual_nights :
            manual_nights[d].category = MANUAL_REMOVE =>
                IF d \in DOMAIN import_nights
                THEN import_nights[d].category = RESERVATION =>
                         final_nights[d] = import_nights[d]
                ELSE d \notin DOMAIN final_nights

\* C5: a MANUAL-BLOCK night replaces the date's entry exactly when the date
\* has no import entry or its import category is AVAILABLE; otherwise the
\* date keeps its import entry.
C5_BlockOnlyOnFreeDates ==
    pc = "events" =>
        \A d \in DOMAIN manual_nights :
            manual_nights[d].category = MANUAL_BLOCK =>
                /\ d \in DOMAIN final_nights
                /\ IF \/ d \notin DOMAIN import_nights
                      \/ import_nights[d].category = AVAILABLE
                   THEN final_nights[d] = manual_nights[d]
                   ELSE /\ final_nights[d] = import_nights[d]
                        /\ final_nights[d] # manual_nights[d]

\* C5 witness: one MANUAL-BLOCK on a PREP-TIME date, which keeps its import
\* entry, and one on a date without import entry, which is blocked.
C5_Witness ==
    /\ pc = "events"
    /\ \E d \in DOMAIN manual_nights \cap DOMAIN import_nights :
          /\ manual_nights[d].category = MANUAL_BLOCK
          /\ import_nights[d].category = PREP_TIME
          /\ final_nights[d].category = PREP_TIME
    /\ \E d \in DOMAIN manual_nights \ DOMAIN import_nights :
          /\ manual_nights[d].category = MANUAL_BLOCK
          /\ final_nights[d].category = MANUAL_BLOCK

-----------------------------------------------------------------------------
\* the days [dtstart, dtend) of a calendar event with DATE or DATE-TIME values
SpanOf(component) ==
    IF component.dtstart = None \/ component.dtend = None THEN {}
    ELSE component.dtstart.day .. (component.dtend.day - 1)

Swap(seq, i, j) ==
    [k \in 1..Len(seq) |-> IF k = i THEN seq[j] ELSE IF k = j THEN seq[i] ELSE seq[k]]

\* the entry of a night map for a day, or "none"
NightAt(nights, d) ==
    IF d \in DOMAIN nights THEN nights[d]
    ELSE [category |-> <<"none">>, description |-> <<>>, uid |-> ""]

\* C7 (as claimed): for a date covered by both a MANUAL-BLOCK and a
\* MANUAL-REMOVE event of manual_calendar.ics, the resolved night is the same
\* when the two events change places in the manual payload.
C7_DirectiveOrderIrrelevant ==
    pc = "events" =>
        LET payload == manual_ics.vevents
        IN \A i, j \in 1..Len(payload) :
              /\ payload[i].categories = MANUAL_BLOCK
              /\ payload[j].categories = MANUAL_REMOVE
              => \A d \in SpanOf(payload[i]) \cap SpanOf(payload[j]) :
                    NightAt(apply_night_overlay_rules(import_nights,
                                convert_events_to_nights(
                                    read_ics_file(Calendar(Swap(payload, i, j))))),
                            d)
                    = NightAt(final_nights, d)

\* C6 (as claimed): in the day grid of process_calendar_data, a day that the
\* import events made 'reserved' and that only MANUAL-BLOCK events of the
\* manual calendar cover is still 'reserved' after the manual events.
C6_BlockLeavesReserved ==
    pc = "editor" =>
        LET after_import == FoldLeft(ApplyImportEvent, InitialCalendarData,
                                     load_editor_events(import_ics))
            manual == manual_ics.vevents
        IN \A d \in EditorWindow :
              /\ after_import[d].category = "reserved"
              /\ \E i \in 1..Len(manual) : d \in SpanOf(manual[i])
              /\ \A i \in 1..Len(manual) :
                    d \in SpanOf(manual[i]) => manual[i].categories = MANUAL_BLOCK
              => calendar_data[d].category = "reserved"

-----------------------------------------------------------------------------
\* the reservations create_import_calendar processes: the deduplicated events
\* without CATEGORIES whose two dates are present
Processed(event) ==
    /\ ~event.already_processed
    /\ event.dtstart.kind \in {"date", "datetime"}
    /\ event.dtend.kind \in {"date", "datetime"}

StayDays(event) == event.dtstart.day .. (event.dtend.day - 1)

BufferDays(event) ==
    ((event.dtstart.day - BUFFER_DAYS_BEFORE) .. (event.dtstart.day - 1))
    \cup (event.dtend.day .. (event.dtend.day + BUFFER_DAYS_AFTER - 1))

\* C2 (as claimed): in the night map built from the emitted import calendar,
\* every PREP-TIME date lies in the buffer window of some reservation and in
\* the interval [start, end) of no reservation.
C2_PrepTimeOutsideEveryStay ==
    pc = "events" =>
        \A d \in DOMAIN import_nights :
            import_nights[d].category = PREP_TIME =>
                /\ \E i \in 1..Len(events) :
                      Processed(events[i]) /\ d \in BufferDays(events[i])
                /\ \A i \in 1..Len(events) :
                      Processed(events[i]) => d \notin StayDays(events[i])

\* C3 (as claimed): after merge_calendars, no PREP-TIME event of the master
\* calendar covers a date inside the span of a MANUAL-REMOVE event of the
\* manual calendar.
C3_RemoveClearsPrepTime ==
    pc \in {"merged", "done", "events"} =>
        \A i \in 1..Len(manual_cal.vevents) :
            manual_cal.vevents[i].categories = MANUAL_REMOVE =>
                \A d \in SpanOf(manual_cal.vevents[i]) :
                    \A k \in 1..Len(master_cal.vevents) :
                        master_cal.vevents[k].categories = PREP_TIME =>
                            d \notin SpanOf(master_cal.vevents[k])

\* C10: for every reservation [start, end) that create_import_calendar
\* processes, the import calendar holds its RESERVATION event on [start, end),
\* its BEFORE buffer on exactly [start - b, start) and its AFTER buffer on
\* exactly [end, end + a), neither sharing a date with [start, end); and the
\* night map of a calendar made from a single reservation is PREP-TIME on
\* [start - b, start), RESERVATION on [start, end), PREP-TIME on [end, end + a)
\* (b = a = 1, Jan-10 to Jan-15: Jan-09, Jan-10..Jan-14, Jan-15).
C10_BufferSpans ==
    /\ pc \in {"created", "loaded", "merged", "done", "events"} =>
          \A i \in 1..Len(events) :
              Processed(events[i]) =>
                  LET ev == events[i]
                      start == ev.dtstart.day
                      end == ev.dtend.day
                      with(uid) == {c \in Range(import_cal.vevents) : c.uid = uid}
                  IN /\ with(ev.uid) # {}
                     /\ \A c \in with(ev.uid) :
                           /\ c.categories = RESERVATION
                           /\ c.dtstart = Date(start) /\ c.dtend = Date(end)
                     /\ with(ev.uid \o "-tp-before") # {}
                     /\ \A c \in with(ev.uid \o "-tp-before") :
                           /\ c.categories = PREP_TIME
                           /\ c.dtstart = Date(start - BUFFER_DAYS_BEFORE)
                           /\ c.dtend = Date(start)
                           /\ SpanOf(c) \cap StayDays(ev) = {}
                     /\ with(ev.uid \o "-tp-after") # {}
                     /\ \A c \in with(ev.uid \o "-tp-after") :
                           /\ c.categories = PREP_TIME
                           /\ c.dtstart = Date(end)
                           /\ c.dtend = Date(end + BUFFER_DAYS_AFTER)
                           /\ SpanOf(c) \cap StayDays(ev) = {}
    /\ pc = "events" /\ Len(events) = 1 /\ Processed(events[1]) =>
          LET start == events[1].dtstart.day
              end == events[1].dtend.day
          IN /\ DOMAIN import_nights =
                    (start - BUFFER_DAYS_BEFORE) .. (end + BUFFER_DAYS_AFTER - 1)
             /\ \A d \in DOMAIN import_nights :
                    import_nights[d].category =
                        IF d \in start .. (end - 1) THEN RESERVATION ELSE PREP_TIME

\* C10 witness: b = a = 1 and the single stay Jan-10 to Jan-15, read back as
\* Jan-09 PREP-TIME, Jan-10..Jan-14 RESERVATION, Jan-15 PREP-TIME.
C10_Witness ==
    /\ pc = "events"
    /\ BUFFER_DAYS_BEFORE = 1 /\ BUFFER_DAYS_AFTER = 1
    /\ Len(events) = 1
    /\ events[1].dtstart = Date(10) /\ events[1].dtend = Date(15)
    /\ DOMAIN import_nights = 9..15
    /\ import_nights[9].category = PREP_TIME
    /\ \A d \in 10..14 : import_nights[d].category = RESERVATION
    /\ import_nights[15].category = PREP_TIME

-----------------------------------------------------------------------------
\* the key of the claim: date of dtstart, date of dtend, summary (compared
\* exactly); the events of the feeds all carry both dates
StayKey(event) == <<event.dtstart.day, event.dtend.day, event.summary>>

SourceIndex(source) == CHOOSE i \in 1..Len(SOURCES) : SOURCES[i] = source

\* C8: deduplicate_events returns exactly one event for each distinct key
\* (date of dtstart, date of dtend, summary) of its input; the survivor is a
\* member of its group with the longest description, and the first such member
\* of the input, which lists the sources in the order AIRBNB, BOOKING, VRBO.
C8_OnePerKeyLongestFirst ==
    pc = "deduplicated" =>
        /\ \A i, j \in 1..Len(all_events) :
              i < j => SourceIndex(all_events[i].source)
                           <= SourceIndex(all_events[j].source)
        /\ {StayKey(events[k]) : k \in 1..Len(events)}
               = {StayKey(all_events[i]) : i \in 1..Len(all_events)}
        /\ \A k, m \in 1..Len(events) :
              StayKey(events[k]) = StayKey(events[m]) => k = m
        /\ \A k \in 1..Len(events) :
              \E i \in 1..Len(all_events) :
                  /\ all_events[i] = events[k]
                  /\ \A j \in 1..Len(all_events) :
                        StayKey(all_events[j]) = StayKey(events[k]) =>
                            /\ Len(all_events[j].description)
                                   <= Len(events[k].description)
                            /\ j < i => Len(all_events[j].description)
                                            < Len(events[k].description)

\* C8 witness: two feeds report the same stay (one with a time of day) with
\* different descriptions of equal length, and a third event of the same key
\* has a shorter one; one event survives, the first of the two longest.
C8_Witness ==
    /\ pc = "deduplicated"
    /\ Len(events) < Len(all_events)
    /\ \E i, j \in 1..Len(all_events) :
          /\ i < j
          /\ StayKey(all_events[i]) = StayKey(all_events[j])
          /\ all_events[i].dtstart # all_events[j].dtstart
          /\ all_events[i].source # all_events[j].source
          /\ all_events[i].description # all_events[j].description
          /\ Len(all_events[i].description) = Len(all_events[j].description)
          /\ \E k \in 1..Len(events) : events[k] = all_events[i]
          /\ \A k \in 1..Len(events) : events[k] # all_events[j]

\* C9 (as claimed): deduplicate_events returns the same list for every
\* ordering of the same events (here: for the input with any two of its
\* events exchanged).
C9_OrderOfInputIrrelevant ==
    pc = "deduplicated" =>
        \A i, j \in 1..Len(all_events) :
            deduplicate_events(Swap(all_events, i, j)) = events

-----------------------------------------------------------------------------
\* C11 (as claimed): create_import_calendar emits no BEFORE event when
\* BUFFER_DAYS_BEFORE is 0 and no AFTER event when BUFFER_DAYS_AFTER is 0, so
\* no PREP-TIME event of the import calendar has DTSTART = DTEND.
C11_NoEmptyBufferEvent ==
    pc \in {"created", "loaded", "merged", "done", "events"} =>
        /\ \A c \in Range(import_cal.vevents) :
              c.categories = PREP_TIME => c.dtstart # c.dtend
        /\ \A i \in 1..Len(events) :
              Processed(events[i]) =>
                  LET with(uid) == {c \in Range(import_cal.vevents) : c.uid = uid}
                  IN /\ BUFFER_DAYS_BEFORE = 0 =>
                            with(events[i].uid \o "-tp-before") = {}
                     /\ BUFFER_DAYS_AFTER = 0 =>
                            with(events[i].uid \o "-tp-after") = {}

-----------------------------------------------------------------------------
\* a feed record (no CATEGORIES) whose date range is missing or inverted
Malformed(event) ==
    /\ ~event.already_processed
    /\ \/ ~Truthy(to_date(event.dtstart))
       \/ ~Truthy(to_date(event.dtend))
       \/ to_date(event.dtend).day <= to_date(event.dtstart).day

\* the events of the import calendar made for the feed record of a uid
EmittedFor(uid) ==
    {c \in Range(import_cal.vevents) :
        c.uid \in {uid, uid \o "-tp-before", uid \o "-tp-after"}}

\* C12 (as claimed): for a feed record whose date range is missing or inverted
\* (end <= start) create_import_calendar emits neither a RESERVATION nor a
\* buffer event, and for every other feed record of the run it emits them.
C12_MalformedRecordDropped ==
    pc \in {"created", "loaded", "merged", "import_open", "import_written",
            "master_open", "done"} =>
        \A i \in 1..Len(events) :
            /\ Malformed(events[i]) => EmittedFor(events[i].uid) = {}
            /\ ~events[i].already_processed /\ ~Malformed(events[i]) =>
                   \E c \in EmittedFor(events[i].uid) : c.categories = RESERVATION

-----------------------------------------------------------------------------
\* the first execution is between loading manual_calendar.ics and completing
\* the write of master_calendar.ics
Reconciling ==
    pc \in {"loaded", "merged", "import_open", "import_written", "master_open"}

\* C13 (as claimed): no execution of sync_local starts while another one is
\* between loading manual_calendar.ics and completing the write of
\* master_calendar.ics.
C13_OneRunAtATime ==
    [][rival.pc = "idle" /\ rival'.pc = "start" => ~Reconciling]_vars

\* C14 (as claimed): what a reader of master_calendar.ics gets while
\* export_to_file runs is the complete contents the file had before the run or
\* the complete calendar an execution writes, never a truncated file.
C14_ReaderSeesCompleteFile ==
    observed \in {NoCalendar, pre_run.master_ics, master_cal, rival.master_cal}

-----------------------------------------------------------------------------
\* C15 (as claimed): when sync_local returns 'error' because export_to_file
\* returned False (the run had merged its master calendar), import_calendar.ics
\* and master_calendar.ics hold the contents they had before the run.
C15_FailedExportLeavesFiles ==
    pc = "error" /\ master_cal.ok =>
        /\ import_ics = pre_run.import_ics
        /\ master_ics = pre_run.master_ics

-----------------------------------------------------------------------------
\* C16: once every download of a run has failed (the cached import calendar
\* was not used: force_download, or no import_calendar.ics that parses), the
\* run has returned status 'error' and import_calendar.ics and
\* master_calendar.ics are as they were before it.
C16_AllDownloadsFailed ==
    pc # "start" /\ calendars = NoCalendars =>
        /\ pc = "error"
        /\ import_ics = pre_run.import_ics
        /\ master_ics = pre_run.master_ics

\* C16 witness: a run without force_download finds a truncated
\* import_calendar.ics beside a master calendar, all three downloads fail,
\* and it ends in error.
C16_Witness ==
    /\ pc = "error"
    /\ calendars = NoCalendars
    /\ ~force_download
    /\ import_ics = TornFile
    /\ master_ics.ok /\ master_ics.vevents # <<>>

-----------------------------------------------------------------------------
\* the two files a run on feeds and a manual calendar leaves when it executes
\* at time t
FilesOfRunAt(feeds, manual_calendar, t) ==
    LET imp == create_import_calendar(
                   deduplicate_events(extract_events(feeds)),
                   BUFFER_DAYS_BEFORE, BUFFER_DAYS_AFTER, t)
    IN [import_ics |-> imp, master_ics |-> merge_calendars(imp, manual_calendar)]

\* C17 (as claimed): the files a completed run wrote are those the same run,
\* on the same feeds and the same manual calendar, writes at any other time.
C17_SameFilesAtAnyTime ==
    pc = "done" =>
        \A t \in 0..MaxClock :
            FilesOfRunAt(calendars, manual_cal, t) = OutputFiles

-----------------------------------------------------------------------------
\* C18 (as claimed): on the cache path every extracted event is marked
\* already processed and the import calendar that create_import_calendar
\* re-emits holds exactly the events of the import_calendar.ics it was read
\* from, in the same order.
C18_CachedImportReemitted ==
    /\ pc \in {"created", "loaded", "merged", "import_open", "import_written",
               "master_open", "done"}
    /\ "IMPORT" \in DOMAIN calendars
    => /\ \A i \in 1..Len(all_events) : all_events[i].already_processed
       /\ import_cal.vevents = calendars["IMPORT"].vevents

-----------------------------------------------------------------------------
\* C19 (as claimed): every event of the master calendar that merge_calendars
\* returns has the category RESERVATION, PREP-TIME or MANUAL-BLOCK.
C19_MasterCategoriesClosed ==
    pc \in {"merged", "import_open", "import_written", "master_open", "done"} =>
        \A c \in Range(master_cal.vevents) :
            c.categories \in {RESERVATION, PREP_TIME, MANUAL_BLOCK}

-----------------------------------------------------------------------------
-----------------------------------------------------------------------------
(* The sync endpoints of main.py *)

\* Feeds of a request: the stay Jan-10 to Jan-15, which several sources may
\* list
RequestPool == {Stay("r1", Date(10), Date(15))}

\* the endpoints that call sync_calendars before answering with the files
Routes == {"api_sync", "api_sync_manual", "api_calendar_import"}

\* update_github_file: a file that does not exist locally is not uploaded
Uploadable(names) ==
    {n \in names : \/ n = "import_calendar.ics" /\ import_ics # NoCalendar
                   \/ n = "master_calendar.ics" /\ master_ics # NoCalendar}

\* update_github_file on import_calendar.ics then master_calendar.ics: the
\* names of the files sent, in order; the upload of a file may fail
Uploads(sent) ==
    (IF "import_calendar.ics" \in sent THEN <<"import_calendar.ics">> ELSE <<>>)
    \o (IF "master_calendar.ics" \in sent THEN <<"master_calendar.ics">>
        ELSE <<>>)

\* api_sync_manual, api_calendar_import: download_github_file of
\* manual_calendar.ics before the run, which may fail and leave the local
\* file; api_sync goes straight to sync_calendars
Request ==
    /\ pc = "request"
    /\ IF route = "api_sync"
       THEN manual_ics' = manual_ics
       ELSE manual_ics' \in RunManualFiles \cup {manual_ics}
    /\ pc' = "start"
    /\ UNCHANGED <<BUFFER_DAYS_BEFORE, BUFFER_DAYS_AFTER, calendars, all_events,
                   events, import_cal, manual_cal, master_cal, import_ics,
                   master_ics, import_nights, manual_nights, final_nights,
                   calendar_data>>
    /\ UNCHANGED <<run_args, concurrent>>
    /\ UNCHANGED <<editor, auth>>
    /\ UNCHANGED <<result, raised, frontend>>

\* api_sync, api_sync_manual: if success: update_github_file twice and 200,
\* else 500
RespondIfSuccess ==
    /\ pc \in {"done", "error"}
    /\ route \in {"api_sync", "api_sync_manual"}
    /\ IF sync_calendars(result)
       THEN /\ \E sent \in SUBSET Uploadable({"import_calendar.ics",
                                              "master_calendar.ics"}) :
                  pushed' = Uploads(sent)
            /\ response' = [code |-> 200, status |-> "success"]
       ELSE /\ pushed' = <<>>
            /\ response' = [code |-> 500, status |-> "error"]
    /\ pc' = "responded"
    /\ UNCHANGED <<BUFFER_DAYS_BEFORE, BUFFER_DAYS_AFTER, calendars, all_events,
                   events, import_cal, manual_cal, master_cal, import_ics,
                   manual_ics, master_ics, import_nights, manual_nights,
                   final_nights, calendar_data>>
    /\ UNCHANGED <<run_args, concurrent>>
    /\ UNCHANGED <<editor, auth>>
    /\ UNCHANGED <<result, raised, route>>

\* api_calendar_import: sync_success is only logged; update_github_file
\* twice, then the events of import_calendar.ics with 200
RespondCalendarImport ==
    /\ pc \in {"done", "error"}
    /\ route = "api_calendar_import"
    /\ \E sent \in SUBSET Uploadable({"import_calendar.ics",
                                      "master_calendar.ics"}) :
          pushed' = Uploads(sent)
    /\ response' = [code |-> 200, status |-> "events"]
    /\ pc' = "responded"
    /\ UNCHANGED <<BUFFER_DAYS_BEFORE, BUFFER_DAYS_AFTER, calendars, all_events,
                   events, import_cal, manual_cal, master_cal, import_ics,
                   manual_ics, master_ics, import_nights, manual_nights,
                   final_nights, calendar_data>>
    /\ UNCHANGED <<run_args, concurrent>>
    /\ UNCHANGED <<editor, auth>>
    /\ UNCHANGED <<result, raised, route>>

\* One request to a sync endpoint, from its arrival to its response, over the
\* files an earlier run left or none; api_sync takes force from the query
\* string, the other two force the download
InitRequests ==
    /\ InitCommon
    /\ route \in Routes
    /\ BUFFER_DAYS_BEFORE = 1
    /\ BUFFER_DAYS_AFTER = 1
    /\ manual_ics \in RunManualFiles
    /\ \/ import_ics = NoCalendar /\ master_ics = NoCalendar
       \/ /\ import_ics = PriorImport(<<Stay("r1", Date(10), Date(15))>>)
          /\ master_ics = merge_calendars(import_ics, manual_ics)
    /\ force_download \in (IF route = "api_sync" THEN BOOLEAN ELSE {TRUE})
    /\ now = MaxClock
    /\ pre_run = OutputFiles
    /\ pc = "request"

NextRequests ==
    \/ Request
    \/ FetchFromCache
    \/ FetchAllCalendars(RequestPool)
    \/ ExtractEvents(TRUE)
    \/ DeduplicateEvents
    \/ CreateImportCalendar
    \/ LoadManualCalendar({manual_ics})
    \/ MergeCalendars
    \/ SyncRaises
    \/ OpenImportFile
    \/ WriteImportFile
    \/ OpenMasterFile
    \/ WriteMasterFile
    \/ ExportFails
    \/ RespondIfSuccess
    \/ RespondCalendarImport

SpecRequests == InitRequests /\ [][NextRequests]_vars

-----------------------------------------------------------------------------
(* C21 *)

\* sync_local has returned
Returned == pc \in {"done", "error", "responded"}

\* C21: sync_local never lets an exception out: whatever the fetch, the
\* extraction, the deduplication, the merge and the two exports did, it
\* returns a dict whose status is 'success' or 'error', with a message when
\* 'error', and sync_calendars is True exactly when the status is 'success'
C21_SyncLocalAlwaysReturnsStatus ==
    Returned =>
        /\ result.status \in {"success", "error"}
        /\ result.status = "error" => result.message # ""
        /\ sync_calendars(result) <=> result.status = "success"
        /\ pc = "done" => sync_calendars(result)
        /\ pc = "error" => ~sync_calendars(result)

\* a run whose deduplication or merge raised has returned status 'error'
C21_Witness ==
    /\ pc = "error"
    /\ result = Failure("exception")
    /\ all_events # <<>>

-----------------------------------------------------------------------------
(* C22 *)

\* extract_events has returned
Extracted == pc \notin {"request", "start", "fetched"}

\* the events of all_events that came from source, in order
EventsFrom(source) == SelectSeq(all_events, LAMBDA e : e.source = source)

\* C22: a source whose download failed is left out and does not stop the
\* others: when at least one of the three downloads succeeded
\* fetch_all_calendars returns the calendar map, and extract_events returns
\* every event of every source whose extraction did not raise, even when
\* the extraction of another source raised
C22_FailedSourceDoesNotStopOthers ==
    /\ (\E s \in SourceSet : calendars[s].ok) =>
           result # Failure("Nenhum calendario importado")
    /\ Extracted =>
          \A s \in OkKeys(calendars) \ DOMAIN raised :
             EventsFrom(s) = [j \in 1..Len(calendars[s].vevents) |->
                                 ExtractedEvent(s, calendars[s].vevents[j])]

\* one download failed, the extraction of one source raised before its
\* event was appended, and the run goes on with the event of the third
C22_Witness ==
    /\ pc = "extracted"
    /\ \E s \in SourceSet : ~calendars[s].ok
    /\ \E s \in DOMAIN raised : raised[s] < Len(calendars[s].vevents)
    /\ \E s \in OkKeys(calendars) \ DOMAIN raised : EventsFrom(s) # <<>>

-----------------------------------------------------------------------------
(* C23 *)

\* a VEVENT of a calendar file read for its nights; a day of None is a
\* missing DTSTART or DTEND
Interval(uid, dtstart, dtend) ==
    VEvent(uid, <<"Bloqueio">>, dtstart, dtend, <<"d">>, <<"MANUAL-BLOCK">>)

\* Events handed to convert_events_to_nights: Mar-01 to Mar-03, an
\* overlapping Mar-02 to Mar-04, the single night Mar-05, an empty range, an
\* inverted range, and one event without DTEND, one without DTSTART
ConvertPool ==
    {Interval("b1", Date(1), Date(3)),
     Interval("b2", Date(2), Date(4)),
     Interval("b3", Date(5), Date(6)),
     Interval("b4", Date(2), Date(2)),
     Interval("b5", Date(3), Date(1)),
     Interval("b6", Date(1), None),
     Interval("b7", None, Date(3))}

\* /api/events over an import_calendar.ics of such events
InitConvert ==
    /\ InitCommon
    /\ route = "none"
    /\ BUFFER_DAYS_BEFORE = 1
    /\ BUFFER_DAYS_AFTER = 1
    /\ import_ics \in Files(ConvertPool, MaxConvert)
    /\ manual_ics = NoCalendar
    /\ master_ics = NoCalendar
    /\ force_download = TRUE
    /\ now = 0
    /\ pre_run = OutputFiles
    /\ pc = "idle"

NextConvert == ApiEvents

SpecConvert == InitConvert /\ [][NextConvert]_vars

\* the dates d with DTSTART <= d < DTEND of a VEVENT that has both dates
HalfOpen(vevent) ==
    IF vevent.dtstart = None \/ vevent.dtend = None THEN {}
    ELSE {d \in vevent.dtstart.day .. vevent.dtend.day :
             vevent.dtstart.day <= d /\ d < vevent.dtend.day}

-----------------------------------------------------------------------------
(* C24 *)

\* load_manual_calendar has returned
ManualLoaded ==
    import_cal # NoCalendar
    /\ pc \notin {"start", "fetched", "extracted", "deduplicated", "created"}

\* C24: when manual_calendar.ics is absent the run does not fail for it:
\* load_manual_calendar yields no calendar, get_manual_blocks and
\* get_manual_removes yield nothing, and the master calendar that
\* merge_calendars builds holds exactly the events of the import calendar
C24_AbsentManualCalendar ==
    manual_ics = NoCalendar /\ ManualLoaded =>
        /\ manual_cal = NoCalendar
        /\ get_manual_blocks(manual_cal) = <<>>
        /\ get_manual_removes(manual_cal) = {}
        /\ pc = "loaded" => result = NoResult
        /\ pc # "loaded" =>
              master_cal.ok /\ master_cal.vevents = import_cal.vevents

\* a run without manual_calendar.ics ended in success with the stay and its
\* two preparation events in master_calendar.ics
C24_Witness ==
    /\ pc = "done"
    /\ manual_ics = NoCalendar
    /\ result = Success
    /\ Len(master_ics.vevents) = 3
    /\ master_ics.vevents = import_ics.vevents

-----------------------------------------------------------------------------
(* Manual editor: the methods of ManualEditorHandler that change
   manual_calendar.ics *)

\* a date string that datetime.strptime(date_str, '%Y-%m-%d') rejects
Garbled == [kind |-> "garbled", day |-> 0, hour |-> 0]

\* datetime.strptime(date_str, '%Y-%m-%d').date(); None stands for ValueError
strptime(date_str) ==
    IF date_str.kind = "isodate" THEN Date(date_str.day) ELSE None

\* the text of a date string inside a UID
DateText(date_str) ==
    IF date_str.kind = "isodate" THEN ToString(date_str.day) ELSE "garbled"

\* block_dates / remove_events: the Event built for one date, DTEND the day
\* after; n is the uuid.uuid4() of its UID
SingleDayEvent(category, date_str, n, stamp) ==
    LET date_obj == strptime(date_str)
        dtend_obj == PlusDays(date_obj, 1)
    IN Stamped(VEvent(category \o "-" \o DateText(date_str) \o "-" \o ToString(n),
                      <<category, ToString(date_obj.day), "a",
                        ToString(dtend_obj.day)>>,
                      date_obj, dtend_obj,
                      <<category, ToString(date_obj.day), "a",
                        ToString(dtend_obj.day)>>,
                      <<category>>), stamp)

\* block_date_range / remove_event_range: the events it appends, none when a
\* date string is rejected; otherwise one Event from start_date to the day
\* after end_date
RangeEvent(category, start_date, end_date, n, stamp) ==
    LET start_obj == strptime(start_date)
        end_obj == strptime(end_date)
        dtend_obj == PlusDays(end_obj, 1)
    IN IF start_obj = None \/ end_obj = None
       THEN <<>>
       ELSE <<Stamped(VEvent(category \o "-" \o DateText(start_date) \o "-"
                                 \o DateText(end_date) \o "-" \o ToString(n),
                             <<category, ToString(start_obj.day), "a",
                               ToString(dtend_obj.day)>>,
                             start_obj, dtend_obj,
                             <<category, ToString(start_obj.day), "a",
                               ToString(dtend_obj.day)>>,
                             <<category>>), stamp)>>

\* block_dates / remove_events: the loop over dates, a rejected date string
\* skipped; the events appended when the uuids drawn before number n
RECURSIVE SingleDayEvents(_, _, _, _)
SingleDayEvents(category, dates, n, stamp) ==
    IF dates = <<>> THEN <<>>
    ELSE IF strptime(Head(dates)) = None
         THEN SingleDayEvents(category, Tail(dates), n, stamp)
         ELSE <<SingleDayEvent(category, Head(dates), n + 1, stamp)>>
              \o SingleDayEvents(category, Tail(dates), n + 1, stamp)

\* clear_events, one date of its loop: an event stays unless it has a DTSTART
\* whose date is the date cleared
ClearedOf(evs, date_str) ==
    LET date_obj == strptime(date_str)
    IN IF date_obj = None THEN evs
       ELSE SelectSeq(evs, LAMBDA event :
                ~Truthy(event.dtstart) \/ to_date(event.dtstart) # date_obj)

RECURSIVE clear_events(_, _)
clear_events(evs, dates) ==
    IF dates = <<>> THEN evs
    ELSE clear_events(ClearedOf(evs, Head(dates)), Tail(dates))

\* load_manual_events_into_memory: the VEVENTs of manual_calendar.ics in the
\* order of the file, [] when the file is missing or does not parse
load_manual_events_into_memory(file) ==
    IF file.ok THEN file.vevents ELSE <<>>

\* Calendar.to_ical(): the bytes of the calendar
to_ical(cal) == [type |-> "bytes", cal |-> cal]

\* obj.encode('utf-8'): a str has the method, bytes has not (AttributeError)
CanEncode(obj) == obj.type = "str"

\* save_manual_calendar: what it returns and what manual_calendar.ics holds
\* afterwards; opens tells whether open(MANUAL_CALENDAR_PATH, 'wb')
\* succeeded.  The file is truncated by open and f.write(
\* cal.to_ical().encode('utf-8')) runs first.
save_manual_calendar(evs, file, opens) ==
    IF ~opens THEN [returned |-> "False", file |-> file]
    ELSE IF ~CanEncode(to_ical(Calendar(evs)))
         THEN [returned |-> "False", file |-> TornFile]
         ELSE [returned |-> "True", file |-> Calendar(evs)]

\* the date strings the editor page sends: Mar-01, Mar-02, Mar-03 and a
\* string that is no date
DateStrings == {IsoDate(1), IsoDate(2), IsoDate(3), Garbled}

\* manual_calendar.ics as a request to the editor finds it: missing, holding
\* a block of Mar-01 to Mar-03 (end exclusive), or cut short
EditorFiles ==
    {NoCalendar, Calendar(<<Directive("MANUAL-BLOCK", 1, 3)>>), TornFile}

\* ManualEditorHandler(): __init__ loads manual_calendar.ics
NewHandler ==
    /\ pc = "request"
    /\ manual_events' = load_manual_events_into_memory(manual_ics)
    /\ pc' = "editing"
    /\ UNCHANGED <<BUFFER_DAYS_BEFORE, BUFFER_DAYS_AFTER, calendars, all_events,
                   events, import_cal, manual_cal, master_cal, import_ics,
                   manual_ics, master_ics, import_nights, manual_nights,
                   final_nights, calendar_data>>
    /\ UNCHANGED <<run_args, concurrent, result, raised, frontend, auth>>
    /\ UNCHANGED <<returned, reloaded, last_call, uuids>>

\* the part of a method call that is the same for all five methods
Called(op, dates, evs, drawn, value) ==
    /\ pc = "editing"
    /\ last_call.n < MaxCalls
    /\ manual_events' = evs
    /\ returned' = value
    /\ uuids' = uuids + drawn
    /\ last_call' = [op |-> op, dates |-> dates, before |-> manual_events,
                     n |-> last_call.n + 1]
    /\ UNCHANGED <<BUFFER_DAYS_BEFORE, BUFFER_DAYS_AFTER, calendars, all_events,
                   events, import_cal, manual_cal, master_cal, import_ics,
                   manual_ics, master_ics, import_nights, manual_nights,
                   final_nights, calendar_data, pc>>
    /\ UNCHANGED <<run_args, concurrent, result, raised, frontend, auth>>
    /\ UNCHANGED reloaded

\* block_dates(dates)
BlockDates ==
    \E dates \in SeqsUpTo(DateStrings, MaxDates) :
       LET new == SingleDayEvents("MANUAL-BLOCK", dates, uuids, now)
       IN Called("block_dates", dates, manual_events \o new, Len(new), "True")

\* remove_events(dates)
RemoveEvents ==
    \E dates \in SeqsUpTo(DateStrings, MaxDates) :
       LET new == SingleDayEvents("MANUAL-REMOVE", dates, uuids, now)
       IN Called("remove_events", dates, manual_events \o new, Len(new),
                 "True")

\* block_date_range(start_date, end_date): False when a date string is
\* rejected
BlockDateRange ==
    \E start_date \in DateStrings, end_date \in DateStrings :
       LET new == RangeEvent("MANUAL-BLOCK", start_date, end_date, uuids + 1,
                             now)
       IN Called("block_date_range", <<start_date, end_date>>,
                 manual_events \o new, Len(new),
                 IF new = <<>> THEN "False" ELSE "True")

\* remove_event_range(start_date, end_date)
RemoveEventRange ==
    \E start_date \in DateStrings, end_date \in DateStrings :
       LET new == RangeEvent("MANUAL-REMOVE", start_date, end_date, uuids + 1,
                             now)
       IN Called("remove_event_range", <<start_date, end_date>>,
                 manual_events \o new, Len(new),
                 IF new = <<>> THEN "False" ELSE "True")

\* clear_events(dates)
ClearEvents ==
    \E dates \in SeqsUpTo(DateStrings, MaxDates) :
       Called("clear_events", dates, clear_events(manual_events, dates), 0,
              "True")

\* save_manual_calendar()
SaveManualCalendar ==
    /\ pc = "editing"
    /\ \E opens \in BOOLEAN :
          LET saved == save_manual_calendar(manual_events, manual_ics, opens)
          IN /\ returned' = saved.returned
             /\ manual_ics' = saved.file
    /\ last_call' = [op |-> "save_manual_calendar", dates |-> <<>>,
                     before |-> manual_events, n |-> last_call.n]
    /\ pc' = "saved"
    /\ UNCHANGED <<BUFFER_DAYS_BEFORE, BUFFER_DAYS_AFTER, calendars, all_events,
                   events, import_cal, manual_cal, master_cal, import_ics,
                   master_ics, import_nights, manual_nights, final_nights,
                   calendar_data>>
    /\ UNCHANGED <<run_args, concurrent, result, raised, frontend, auth>>
    /\ UNCHANGED <<manual_events, reloaded, uuids>>

\* api_calendar_save: if not editor.save_manual_calendar(): 500
SaveRefused ==
    /\ pc = "saved"
    /\ returned = "False"
    /\ response' = [code |-> 500, status |-> "error"]
    /\ pc' = "responded"
    /\ UNCHANGED <<BUFFER_DAYS_BEFORE, BUFFER_DAYS_AFTER, calendars, all_events,
                   events, import_cal, manual_cal, master_cal, import_ics,
                   manual_ics, master_ics, import_nights, manual_nights,
                   final_nights, calendar_data>>
    /\ UNCHANGED <<run_args, concurrent, result, raised, route, pushed, auth>>
    /\ UNCHANGED editor

\* the ManualEditorHandler() of a later request
LaterHandler ==
    /\ pc \in {"saved", "responded"}
    /\ reloaded' = load_manual_events_into_memory(manual_ics)
    /\ pc' = "reloaded"
    /\ UNCHANGED <<BUFFER_DAYS_BEFORE, BUFFER_DAYS_AFTER, calendars, all_events,
                   events, import_cal, manual_cal, master_cal, import_ics,
                   manual_ics, master_ics, import_nights, manual_nights,
                   final_nights, calendar_data>>
    /\ UNCHANGED <<run_args, concurrent, result, raised, frontend, auth>>
    /\ UNCHANGED <<manual_events, returned, last_call, uuids>>

\* POST /api/calendar/save: a handler, up to MaxCalls of its methods, the
\* save and the handler of the request after it
InitEditor ==
    /\ InitCommon
    /\ route = "api_calendar_save"
    /\ BUFFER_DAYS_BEFORE = 1
    /\ BUFFER_DAYS_AFTER = 1
    /\ import_ics = NoCalendar
    /\ manual_ics \in EditorFiles
    /\ master_ics = NoCalendar
    /\ force_download = FALSE
    /\ now = MaxClock
    /\ pre_run = OutputFiles
    /\ pc = "request"

NextEditor ==
    \/ NewHandler
    \/ BlockDates
    \/ RemoveEvents
    \/ BlockDateRange
    \/ RemoveEventRange
    \/ ClearEvents
    \/ SaveManualCalendar
    \/ SaveRefused
    \/ LaterHandler

SpecEditor == InitEditor /\ [][NextEditor]_vars

-----------------------------------------------------------------------------
(* C25, C26, C27 *)

\* uid, dates and category of the manual events, in order
Identity(evs) ==
    [i \in 1..Len(evs) |->
        [uid |-> evs[i].uid, dtstart |-> evs[i].dtstart,
         dtend |-> evs[i].dtend, categories |-> evs[i].categories]]

\* C25 (as claimed): after any sequence of block_dates, block_date_range,
\* remove_events, remove_event_range and clear_events, save_manual_calendar
\* returns True and a handler constructed afterwards loads from
\* manual_calendar.ics the same manual events (uid, dates, category) in the
\* same order.
C25_SaveLoadRoundTrip ==
    pc = "reloaded" =>
        /\ returned = "True"
        /\ Identity(reloaded) = Identity(manual_events)

\* the dates d with DTSTART <= d < DTEND of a manual event
Covered(event) ==
    {d \in event.dtstart.day .. event.dtend.day :
        event.dtstart.day <= d /\ d < event.dtend.day}

\* C26 (as claimed): after clear_events([d]) no manual event in memory covers
\* d, a range event that starts before d included, and every event whose
\* span does not hold d is kept, in its original order.
C26_ClearRemovesCoveringEvents ==
    /\ last_call.op = "clear_events"
    /\ Len(last_call.dates) = 1
    /\ last_call.dates[1] # Garbled
    => LET d == last_call.dates[1].day
       IN /\ \A i \in 1..Len(manual_events) : d \notin Covered(manual_events[i])
          /\ manual_events =
                 SelectSeq(last_call.before, LAMBDA e : d \notin Covered(e))

\* the events the last call appended
Appended ==
    SubSeq(manual_events, Len(last_call.before) + 1, Len(manual_events))

\* C27 (as claimed): every event that block_dates, remove_events,
\* block_date_range or remove_event_range appends has DTEND > DTSTART, and
\* a range request whose end date precedes its start date appends no event
\* and returns False.
C27_AppendedEventsHaveEndAfterStart ==
    last_call.op \in {"block_dates", "remove_events", "block_date_range",
                      "remove_event_range"}
    => /\ \A i \in 1..Len(Appended) :
             Appended[i].dtend.day > Appended[i].dtstart.day
       /\ /\ last_call.op \in {"block_date_range", "remove_event_range"}
          /\ last_call.dates[1] # Garbled
          /\ last_call.dates[2] # Garbled
          /\ last_call.dates[2].day < last_call.dates[1].day
          => Appended = <<>> /\ returned = "False"

-----------------------------------------------------------------------------
(* C28 *)

\* C28 (as claimed): in every sync endpoint import_calendar.ics and
\* master_calendar.ics are pushed by update_github_file only after
\* sync_calendars returned True in that request; when the synchronisation
\* fails no generated file is pushed and the response does not report
\* success.
C28_PushOnlyAfterSuccessfulSync ==
    pc = "responded" /\ ~sync_calendars(result) =>
        /\ pushed = <<>>
        /\ response.code # 200

-----------------------------------------------------------------------------
(* C29 *)

\* at least one feed was downloaded and parsed, and no feed holds an event
FeedsWithoutEvents ==
    /\ \E s \in SourceSet : calendars[s].ok
    /\ \A s \in SourceSet : calendars[s].vevents = <<>>

\* C29 (as claimed): when at least one feed is fetched and parsed,
\* sync_local does not fail merely because the feeds hold no event: it
\* returns 'success' and rewrites import_calendar.ics and
\* master_calendar.ics, so a reservation of an earlier run does not stay in
\* master_calendar.ics.
C29_EmptyFeedsStillSync ==
    pc = "error" /\ FeedsWithoutEvents =>
        /\ result.message # "Nenhum evento encontrado"
        /\ \A i \in 1..Len(master_ics.vevents) :
              ~HasCategory(master_ics.vevents[i].categories, "RESERVATION")

-----------------------------------------------------------------------------
(* Authentication: AuthManager and the guards of the views *)

\* Python's None as a session value or a return value
PyNone == "<None>"

\* the keys AuthManager.login sets
SessionKeys == {"user", "authenticated", "username"}

\* auth.py USERS, used when config.py gives no ADMIN_USERNAME
USERS == [admin |-> "password123", user |-> "user123"]

\* AuthManager.authenticate: against ADMIN_USERNAME / ADMIN_PASSWORD when
\* config.py loaded (here the account admin of USERS), else against USERS
authenticate(username, password, use_config) ==
    IF use_config THEN username = "admin" /\ password = USERS["admin"]
    ELSE username \in DOMAIN USERS /\ USERS[username] = password

\* AuthManager.logout popping 'user' and 'authenticated' only
logout_keeping_username(sess) ==
    [k \in DOMAIN sess \ {"user", "authenticated"} |-> sess[k]]

\* AuthManager.login: session['user'], session['authenticated'],
\* session['username']
login(sess, username) ==
    [k \in DOMAIN sess \cup SessionKeys |->
        CASE k = "user" -> username
          [] k = "authenticated" -> "True"
          [] k = "username" -> username
          [] OTHER -> sess[k]]

\* AuthManager.logout: the three keys popped
logout(sess) == [k \in DOMAIN sess \ SessionKeys |-> sess[k]]

\* AuthManager.is_authenticated
is_authenticated(sess) ==
    \/ "user" \in DOMAIN sess /\ sess["user"] # PyNone
    \/ "authenticated" \in DOMAIN sess /\ sess["authenticated"] = "True"

\* AuthManager.get_current_user
get_current_user(sess) ==
    IF "user" \in DOMAIN sess THEN sess["user"]
    ELSE IF "username" \in DOMAIN sess THEN sess["username"]
    ELSE PyNone

\* the guards: login_required and api_login_required of auth.py, and the
\* api_login_required of backend/manual_editor_endpoints.py
Guards == {"login_required", "api_login_required",
           "manual_editor_endpoints.api_login_required"}

\* whether the wrapper of a guard calls the view
Admits(guard, sess) ==
    IF guard = "manual_editor_endpoints.api_login_required"
    THEN "username" \in DOMAIN sess
    ELSE is_authenticated(sess)

\* what the login form posts: an account, a name without account, no name;
\* its password, a wrong one, none
Usernames == {"admin", "user", "guest", ""}
Passwords == {"password123", "user123", "wrong", ""}

\* POST /login: 400 without name or password, AuthManager.login and a
\* redirect when authenticate accepts, else 401
LoginPage ==
    /\ pc = "browsing"
    /\ Len(session_ops) < MaxSessionOps
    /\ \E username \in Usernames, password \in Passwords,
          use_config \in BOOLEAN :
          IF username = "" \/ password = ""
          THEN /\ response' = [code |-> 400, status |-> "error"]
               /\ UNCHANGED <<session, session_ops>>
          ELSE IF authenticate(username, password, use_config)
               THEN /\ session' = login(session, username)
                    /\ session_ops' = Append(session_ops, "login")
                    /\ response' = [code |-> 302, status |-> "manual_editor_page"]
               ELSE /\ response' = [code |-> 401, status |-> "error"]
                    /\ UNCHANGED <<session, session_ops>>
    /\ UNCHANGED <<BUFFER_DAYS_BEFORE, BUFFER_DAYS_AFTER, calendars, all_events,
                   events, import_cal, manual_cal, master_cal, import_ics,
                   manual_ics, master_ics, import_nights, manual_nights,
                   final_nights, calendar_data, pc>>
    /\ UNCHANGED <<run_args, concurrent, result, raised, route, pushed, editor>>
    /\ UNCHANGED admitted

\* /logout: AuthManager.logout and a redirect to the login page
LogoutPage ==
    /\ pc = "browsing"
    /\ Len(session_ops) < MaxSessionOps
    /\ session' = logout(session)
    /\ session_ops' = Append(session_ops, "logout")
    /\ response' = [code |-> 302, status |-> "login_page"]
    /\ UNCHANGED <<BUFFER_DAYS_BEFORE, BUFFER_DAYS_AFTER, calendars, all_events,
                   events, import_cal, manual_cal, master_cal, import_ics,
                   manual_ics, master_ics, import_nights, manual_nights,
                   final_nights, calendar_data, pc>>
    /\ UNCHANGED <<run_args, concurrent, result, raised, route, pushed, editor>>
    /\ UNCHANGED admitted

\* session.permanent = True with PERMANENT_SESSION_LIFETIME: the cookie
\* lapses and the next request comes with an empty session
SessionExpires ==
    /\ pc = "browsing"
    /\ session # NoSession
    /\ session' = NoSession
    /\ UNCHANGED <<BUFFER_DAYS_BEFORE, BUFFER_DAYS_AFTER, calendars, all_events,
                   events, import_cal, manual_cal, master_cal, import_ics,
                   manual_ics, master_ics, import_nights, manual_nights,
                   final_nights, calendar_data, pc>>
    /\ UNCHANGED <<run_args, concurrent, result, raised, frontend, editor>>
    /\ UNCHANGED <<session_ops, admitted>>

\* a request to a view behind one of the guards: the view runs, or the
\* wrapper redirects to the login page (login_required) or answers 401
GuardedView ==
    /\ pc = "browsing"
    /\ \E guard \in Guards :
          /\ admitted' = [guard |-> guard, ran |-> Admits(guard, session),
                          ops |-> Len(session_ops),
                          user |-> get_current_user(session)]
          /\ response' =
                 IF Admits(guard, session)
                 THEN [code |-> 200, status |-> "view"]
                 ELSE IF guard = "login_required"
                      THEN [code |-> 302, status |-> "login_page"]
                      ELSE [code |-> 401, status |-> "error"]
    /\ UNCHANGED <<BUFFER_DAYS_BEFORE, BUFFER_DAYS_AFTER, calendars, all_events,
                   events, import_cal, manual_cal, master_cal, import_ics,
                   manual_ics, master_ics, import_nights, manual_nights,
                   final_nights, calendar_data, pc>>
    /\ UNCHANGED <<run_args, concurrent, result, raised, route, pushed, editor>>
    /\ UNCHANGED <<session, session_ops>>

\* A browser without cookie, its logins and logouts and its requests to the
\* guarded views
InitAuth ==
    /\ InitCommon
    /\ route = "none"
    /\ BUFFER_DAYS_BEFORE = 1
    /\ BUFFER_DAYS_AFTER = 1
    /\ import_ics = NoCalendar
    /\ manual_ics = NoCalendar
    /\ master_ics = NoCalendar
    /\ force_download = FALSE
    /\ now = 0
    /\ pre_run = OutputFiles
    /\ pc = "browsing"

NextAuth ==
    \/ LoginPage
    \/ LogoutPage
    \/ SessionExpires
    \/ GuardedView

SpecAuth == InitAuth /\ [][NextAuth]_vars

-----------------------------------------------------------------------------
(* C30 *)

\* the last AuthManager.login / logout on the session, "none" before any
LastSessionOp(n) == IF n = 0 THEN "none" ELSE session_ops[n]

\* C30: a view behind login_required or api_login_required runs only if the
\* last operation on the session was AuthManager.login; after
\* AuthManager.logout is_authenticated() is False and get_current_user() is
\* None; and the api_login_required of auth.py (is_authenticated()) and the
\* one of manual_editor_endpoints.py ('username' in session) admit the same
\* reachable sessions
C30_GuardsFollowLogin ==
    /\ admitted.ran => LastSessionOp(admitted.ops) = "login"
    /\ LastSessionOp(Len(session_ops)) = "logout" =>
          ~is_authenticated(session) /\ get_current_user(session) = PyNone
    /\ Admits("api_login_required", session)
          <=> Admits("manual_editor_endpoints.api_login_required", session)

\* after a login, a logout and a second login a guarded API view ran for the
\* user of the second login
C30_Witness ==
    /\ session_ops = <<"login", "logout", "login">>
    /\ admitted.guard = "api_login_required"
    /\ admitted.ran
    /\ admitted.ops = 3
    /\ admitted.user = "user"

-----------------------------------------------------------------------------
====
